---- MODULE Spec2Model ----
(***************************************************************************)
(* The telemetry pipeline of logsentinel-nextjs: LogQueue (queue.ts) and   *)
(* LogSentinelClient (client.ts): sampling, the bounded FIFO queue, size-  *)
(* and timer-triggered flushes, and sendBatch with its timeout and retry.  *)
(*                                                                         *)
(* JavaScript runs one task at a time, so every action below is one run    *)
(* to completion of a synchronous stretch of code: a call of log(), a      *)
(* timer callback, a call of destroy() up to its await, the continuation   *)
(* after a fetch settles, the continuation after a backoff delay.          *)
(* Events are named by the number of the log() call that passed them.      *)
(* Sample rates and random draws are in hundredths (100 is 1.0).           *)
(***************************************************************************)
EXTENDS Integers, Sequences, FiniteSets, TLC

\* Bounds of the model.
MaxCalls == 3
MaxCapacity == 2
MaxBatchSize == 3
MaxDequeue == 3
MaxDeliveryCalls == 2
MaxSingletonCalls == 1
MaxResets == 1
MaxDepth == 2

MaxRequests == 2

\* client.ts: const maxAttempts = 3
maxAttempts == 3

\* 0.0 and 1.0, the two ends of the sample rate's range
SampleRates == {0, 100}
\* Math.random() is in [0,1): 0 is a possible draw, 1 is not.
RandomDraws == {0, 50, 99}
\* How a fetch can settle: 2xx, non-2xx, transport error, abort by the timeout.
Outcomes == {"ok", "status", "error", "timeout"}

VARIABLES
    config,       \* the client's LogSentinelConfig (sampleRate, batchSize, maxQueueSize)
    queue,        \* LogQueue.queue
    flushTimer,   \* TRUE while the setInterval of startBatchFlusher is live (destroy() clears it)
    calls,        \* number of log() calls (or direct enqueues) made so far
    accepted,     \* the events that were enqueued, in order
    evictedLogs,  \* the events enqueue() dropped as oldest
    batches,      \* every LogBatch flush() constructed, with the state of its sendBatch
                  \* (attempt, state, and slept: the backoff delays it has set, in ms)
    warnings,     \* number of console.warn('[LogSentinel] Failed to send batch:')
    unhandled,    \* TRUE once an error escaped log() or a flush() promise rejected
    ret,          \* what the last direct dequeue() returned
    collector,    \* per batch, how many of its requests the collector received
                  \* (recorded where the collector is part of the model: SpecDelivery)
    clientInstance, \* TRUE while the module's clientInstance is this client, FALSE when null
    retired,      \* the clients getClient() has replaced: their config and timer
    cachedConfig, \* config.ts's cachedConfig: <<>> when undefined, else <<the config>>
    input,        \* the last call of a function of utils.ts / config.ts: its name and argument
    output,       \* what that call returned
    processEnv,   \* process.env, as far as getConfig() reads it
    handlerCalls, \* how often a wrapper has invoked the host's handler
    payloads      \* the LogPayloads the wrappers passed to log(), with what they were built from

vars == <<config, queue, flushTimer, calls, accepted, evictedLogs, batches,
          warnings, unhandled, ret, collector, clientInstance, retired,
          cachedConfig, input, output, processEnv, handlerCalls, payloads>>

\* The module-level state around the client (clientInstance, cachedConfig).
singleton == <<clientInstance, retired, cachedConfig>>

\* The last call of a stateless function.
utilsCall == <<input, output>>

\* The state of the integration wrappers and their environment.
integration == <<processEnv, handlerCalls, payloads>>

Configs ==
    [sampleRate : SampleRates, batchSize : 0..MaxBatchSize, maxQueueSize : 1..MaxCapacity]

----------------------------------------------------------------------------
\* LogQueue

\* Array.prototype.shift: drops the first element, if there is one.
shift(q) == IF q = <<>> THEN <<>> ELSE Tail(q)

enqueue_dropNewest(q, log, maxSize) ==
    IF Len(q) >= maxSize /\ q # <<>>
        THEN Append(SubSeq(q, 1, Len(q) - 1), log)
        ELSE Append(q, log)

enqueue_noEvict(q, log, maxSize) == Append(q, log)

enqueue_unshift(q, log, maxSize) ==
    IF Len(q) >= maxSize THEN <<log>> \o shift(q) ELSE <<log>> \o q

\* enqueue(log): the queue afterwards.
enqueue(q, log, maxSize) ==
    IF Len(q) >= maxSize THEN Append(shift(q), log) ELSE Append(q, log)

\* enqueue(log): the element its shift() dropped.
enqueueDropped(q, maxSize) ==
    IF Len(q) >= maxSize /\ q # <<>> THEN {Head(q)} ELSE {}

spliceCount_offByOne(q, n) ==
    IF n - 1 < 0 THEN 0 ELSE IF n - 1 > Len(q) THEN Len(q) ELSE n - 1

\* Array.prototype.splice(0, n): how many elements it removes.
spliceCount(q, n) ==
    IF n < 0 THEN 0 ELSE IF n > Len(q) THEN Len(q) ELSE n

dequeueRest_slice(q, n) == q

dequeueReturn_skipFirst(q, n) == SubSeq(q, 2, spliceCount(q, n))

\* dequeue(n): what it returns, and what it leaves in the queue.
dequeueReturn(q, n) == SubSeq(q, 1, spliceCount(q, n))
dequeueRest(q, n) == SubSeq(q, spliceCount(q, n) + 1, Len(q))

size(q) == Len(q)
isEmpty(q) == Len(q) = 0

----------------------------------------------------------------------------
\* LogSentinelClient

Init ==
    /\ config \in Configs
    /\ queue = <<>>
    /\ flushTimer = TRUE
    /\ calls = 0
    /\ accepted = <<>>
    /\ evictedLogs = {}
    /\ batches = <<>>
    /\ warnings = 0
    /\ unhandled = FALSE
    /\ ret = <<>>
    /\ collector = [i \in 1..MaxCalls |-> 0]
    /\ clientInstance = TRUE
    /\ retired = <<>>
    /\ cachedConfig = <<>>
    /\ input = <<>>
    /\ output = <<>>
    /\ processEnv = <<>>
    /\ handlerCalls = <<>>
    /\ payloads = <<>>

\* Date.now() in flush(): the instant at which a batch is constructed. The n-th
\* batch of the process is constructed at instant n.
now == Len(batches) + 1

\* generateBatchId(): `batch_${Date.now()}_${random}`, one per instant
generateBatchId == now

NewBatch_awaited(logs) ==
    [logs |-> logs, attempt |-> 1, st |-> "SUCCEEDED", slept |-> 0,
     batchId |-> generateBatchId, sentAt |-> now]

\* flush() from the batch literal { logs, batchId, sentAt } to the fetch()
\* call of sendBatch(batch, 1): the batch is constructed and its first request
\* is on the wire.
NewBatch(logs) ==
    [logs |-> logs, attempt |-> 1, st |-> "SENDING", slept |-> 0,
     batchId |-> generateBatchId, sentAt |-> now]

flush_noLengthCheck(q) ==
    IF isEmpty(q)
        THEN /\ queue' = q
             /\ batches' = batches
        ELSE /\ queue' = dequeueRest(q, config.batchSize)
             /\ batches' = Append(batches, NewBatch(dequeueReturn(q, config.batchSize)))

flush_unguarded(q) ==
    /\ queue' = dequeueRest(q, config.batchSize)
    /\ batches' = Append(batches, NewBatch(dequeueReturn(q, config.batchSize)))

\* flush(), its synchronous part, run on queue content q.
flush(q) ==
    IF isEmpty(q)
        THEN /\ queue' = q
             /\ batches' = batches
        ELSE LET logs == dequeueReturn(q, config.batchSize)
                 rest == dequeueRest(q, config.batchSize)
             IN  /\ queue' = rest
                 /\ batches' = IF Len(logs) = 0
                                  THEN batches
                                  ELSE Append(batches, NewBatch(logs))

sampledOut_geq(draw) == draw >= config.sampleRate

sampledOut_inverted(draw) == draw < config.sampleRate

\* log(): if (Math.random() > this.config.sampleRate) return
sampledOut(draw) == draw > config.sampleRate

batchSizeReached_gt(q) == size(q) > config.batchSize

\* log(): if (this.queue.size() >= this.config.batchSize)
batchSizeReached(q) == size(q) >= config.batchSize

log_flushOnDrop(draw) ==
    /\ calls < MaxCalls
    /\ calls' = calls + 1
    /\ IF sampledOut(draw)
          THEN /\ flush(queue)
               /\ UNCHANGED <<accepted, evictedLogs>>
          ELSE LET id == calls + 1
                   q1 == enqueue(queue, id, config.maxQueueSize)
               IN  /\ accepted' = Append(accepted, id)
                   /\ evictedLogs' = evictedLogs \cup enqueueDropped(queue, config.maxQueueSize)
                   /\ IF batchSizeReached(q1)
                         THEN flush(q1)
                         ELSE queue' = q1 /\ batches' = batches
    /\ UNCHANGED <<config, flushTimer, warnings, unhandled, ret, collector,
                   singleton, utilsCall, integration>>

\* log(payload), with Math.random() returning draw.
log(draw) ==
    /\ calls < MaxCalls
    /\ calls' = calls + 1
    /\ IF sampledOut(draw)
          THEN UNCHANGED <<queue, accepted, evictedLogs, batches>>
          ELSE LET id == calls + 1
                   q1 == enqueue(queue, id, config.maxQueueSize)
               IN  /\ accepted' = Append(accepted, id)
                   /\ evictedLogs' = evictedLogs \cup enqueueDropped(queue, config.maxQueueSize)
                   /\ IF batchSizeReached(q1)
                         THEN flush(q1)
                         ELSE queue' = q1 /\ batches' = batches
    /\ UNCHANGED <<config, flushTimer, warnings, unhandled, ret, collector,
                   singleton, utilsCall, integration>>

TimerTick_fullOnly ==
    /\ flushTimer
    /\ batchSizeReached(queue)
    /\ flush(queue)
    /\ UNCHANGED <<config, flushTimer, calls, accepted, evictedLogs, warnings,
                   unhandled, ret, collector, singleton,
                   utilsCall, integration>>

\* The setInterval callback of startBatchFlusher.
TimerTick ==
    /\ flushTimer
    /\ flush(queue)
    /\ UNCHANGED <<config, flushTimer, calls, accepted, evictedLogs, warnings,
                   unhandled, ret, collector, singleton,
                   utilsCall, integration>>

destroy_keepsTimer ==
    /\ flushTimer' = flushTimer
    /\ flush(queue)
    /\ UNCHANGED <<config, calls, accepted, evictedLogs, warnings, unhandled, ret,
                   collector, singleton, utilsCall, integration>>

\* destroy(), up to its await.
destroy ==
    /\ flushTimer' = FALSE
    /\ flush(queue)
    /\ UNCHANGED <<config, calls, accepted, evictedLogs, warnings, unhandled, ret,
                   collector, singleton, utilsCall, integration>>

\* sendBatch: body: JSON.stringify(batch), what an attempt puts on the wire
fetchBody(batch) ==
    [logs |-> batch.logs, batchId |-> batch.batchId, sentAt |-> batch.sentAt]

shouldRetry_leq(attempt) == attempt <= maxAttempts

shouldRetry_early(attempt) == attempt < maxAttempts - 1

\* sendBatch: if (attempt < maxAttempts)
shouldRetry(attempt) == attempt < maxAttempts

backoffDelay_documented(attempt) == (2 ^ (attempt - 1)) * 1000

\* sendBatch: const delay = Math.pow(2, attempt) * 1000
backoffDelay(attempt) == (2 ^ attempt) * 1000

flushCatch_missing(i) ==
    /\ batches' = [batches EXCEPT ![i].st = "FAILED"]
    /\ warnings' = warnings
    /\ unhandled' = TRUE

\* flush(): catch (error) { console.warn(...) } around await this.sendBatch(batch)
flushCatch(i) ==
    /\ batches' = [batches EXCEPT ![i].st = "FAILED"]
    /\ warnings' = warnings + 1
    /\ unhandled' = unhandled

fetchSettled_statusOk(i, outcome) ==
    /\ i \in 1..Len(batches)
    /\ batches[i].st = "SENDING"
    /\ IF outcome \in {"ok", "status"}
          THEN /\ batches' = [batches EXCEPT ![i].st = "SUCCEEDED"]
               /\ UNCHANGED <<warnings, unhandled>>
          ELSE IF shouldRetry(batches[i].attempt)
                  THEN /\ batches' = [batches EXCEPT
                                         ![i].st = "RETRYING",
                                         ![i].slept = @ + backoffDelay(batches[i].attempt)]
                       /\ UNCHANGED <<warnings, unhandled>>
                  ELSE flushCatch(i)
    /\ UNCHANGED <<config, queue, flushTimer, calls, accepted, evictedLogs, ret,
                   singleton, utilsCall, integration>>

\* sendBatch of batch i after its await fetch(...): the response is ok, or the
\* catch block runs (non-2xx throws NetworkError, a transport error and the
\* timeout's abort reject the fetch).
fetchSettled(i, outcome) ==
    /\ i \in 1..Len(batches)
    /\ batches[i].st = "SENDING"
    /\ IF outcome = "ok"
          THEN /\ batches' = [batches EXCEPT ![i].st = "SUCCEEDED"]
               /\ UNCHANGED <<warnings, unhandled>>
          ELSE IF shouldRetry(batches[i].attempt)
                  THEN /\ batches' = [batches EXCEPT
                                         ![i].st = "RETRYING",
                                         ![i].slept = @ + backoffDelay(batches[i].attempt)]
                       /\ UNCHANGED <<warnings, unhandled>>
                  ELSE flushCatch(i)
    /\ UNCHANGED <<config, queue, flushTimer, calls, accepted, evictedLogs, ret,
                   singleton, utilsCall, integration>>

\* The fetch of batch i settles, seen from the client alone.
SendSettles(i, outcome) ==
    /\ fetchSettled(i, outcome)
    /\ UNCHANGED collector

BackoffElapsed_sameAttempt(i) ==
    /\ i \in 1..Len(batches)
    /\ batches[i].st = "RETRYING"
    /\ batches' = [batches EXCEPT ![i].st = "SENDING"]
    /\ UNCHANGED <<config, queue, flushTimer, calls, accepted, evictedLogs,
                   warnings, unhandled, ret, collector, singleton,
                   utilsCall, integration>>

BackoffElapsed_noResend(i) ==
    /\ i \in 1..Len(batches)
    /\ batches[i].st = "RETRYING"
    /\ UNCHANGED vars

BackoffElapsed_refill(i) ==
    /\ i \in 1..Len(batches)
    /\ batches[i].st = "RETRYING"
    /\ batches' = [batches EXCEPT ![i].st = "SENDING", ![i].attempt = @ + 1,
                                  ![i].logs = @ \o queue]
    /\ UNCHANGED <<config, queue, flushTimer, calls, accepted, evictedLogs,
                   warnings, unhandled, ret, collector, singleton,
                   utilsCall, integration>>

\* The backoff delay of batch i has passed: return this.sendBatch(batch, attempt + 1)
BackoffElapsed(i) ==
    /\ i \in 1..Len(batches)
    /\ batches[i].st = "RETRYING"
    /\ batches' = [batches EXCEPT ![i].st = "SENDING", ![i].attempt = @ + 1]
    /\ UNCHANGED <<config, queue, flushTimer, calls, accepted, evictedLogs,
                   warnings, unhandled, ret, collector, singleton,
                   utilsCall, integration>>

Next ==
    \/ \E draw \in RandomDraws : log(draw)
    \/ TimerTick
    \/ destroy
    \/ \E i \in 1..Len(batches), outcome \in Outcomes : SendSettles(i, outcome)
    \/ \E i \in 1..Len(batches) : BackoffElapsed(i)

Spec == Init /\ [][Next]_vars

----------------------------------------------------------------------------
\* The client together with the collector at the other end of the fetch.

\* The fetch of batch i settles; got says whether the request reached the
\* collector. A 2xx response comes from the collector; a failed attempt may or
\* may not have reached it (a late or lost response, an error status).
SendSettlesAt(i, outcome, got) ==
    /\ fetchSettled(i, outcome)
    /\ i \in DOMAIN collector
    /\ outcome = "ok" => got
    /\ collector' = [collector EXCEPT ![i] = @ + (IF got THEN 1 ELSE 0)]

logDelivery(draw) ==
    /\ calls < MaxDeliveryCalls
    /\ log(draw)

InitDelivery ==
    /\ Init
    /\ config.sampleRate = 100

NextDelivery ==
    \/ \E draw \in RandomDraws : logDelivery(draw)
    \/ TimerTick
    \/ destroy
    \/ \E i \in 1..Len(batches), outcome \in Outcomes, got \in BOOLEAN :
           SendSettlesAt(i, outcome, got)
    \/ \E i \in 1..Len(batches) : BackoffElapsed(i)

SpecDelivery == InitDelivery /\ [][NextDelivery]_vars

----------------------------------------------------------------------------
\* sendBatch and its retries, for clients that accept every event.

InitRetry ==
    /\ Init
    /\ config.sampleRate = 100
    /\ config.maxQueueSize = MaxCapacity
    /\ config.batchSize >= 1

SpecRetry == InitRetry /\ [][Next]_vars

\* What the runtime guarantees to the client: the interval timer of
\* startBatchFlusher keeps firing while it is not cleared, every fetch settles
\* (at the latest by the abort of its timeout), and the setTimeout of every
\* backoff fires.
Fairness ==
    /\ WF_vars(TimerTick)
    /\ \A i \in 1..MaxCalls :
          /\ WF_vars(\E outcome \in Outcomes : SendSettles(i, outcome))
          /\ WF_vars(BackoffElapsed(i))

\* The steps of a client that is never destroyed.
NextFair ==
    \/ \E draw \in RandomDraws : log(draw)
    \/ TimerTick
    \/ \E i \in 1..Len(batches), outcome \in Outcomes : SendSettles(i, outcome)
    \/ \E i \in 1..Len(batches) : BackoffElapsed(i)

SpecFair == InitRetry /\ [][NextFair]_vars /\ Fairness

----------------------------------------------------------------------------
\* The client behind getClient() and resetClient(), and the configuration
\* cache of config.ts. config, queue and flushTimer are the fields of the
\* newest client: the one clientInstance points to or, after resetClient(),
\* the one it pointed to last (callers may still hold it). The clients before
\* it are kept in retired with their config and their timer.

\* What getConfig() can return over the life of the process (the environment
\* may change between two reads).
EnvConfigs ==
    {c \in Configs : /\ c.sampleRate = 100
                     /\ c.maxQueueSize = MaxCapacity
                     /\ c.batchSize >= 1}

\* getCachedConfig(), with getConfig() returning env.
getCachedConfig(env) ==
    /\ cachedConfig' = IF cachedConfig = <<>> THEN <<env>> ELSE cachedConfig
    /\ UNCHANGED <<config, queue, flushTimer, calls, accepted, evictedLogs,
                   batches, warnings, unhandled, ret, collector, clientInstance,
                   retired,
                   utilsCall, integration>>

\* resetConfig(): cachedConfig = undefined
resetConfig ==
    /\ cachedConfig' = <<>>
    /\ UNCHANGED <<config, queue, flushTimer, calls, accepted, evictedLogs,
                   batches, warnings, unhandled, ret, collector, clientInstance,
                   retired,
                   utilsCall, integration>>

getClient_reconfigure(c) ==
    /\ IF ~clientInstance
          THEN /\ retired' = Append(retired, [config |-> config,
                                              flushTimer |-> flushTimer])
               /\ queue' = <<>>
               /\ flushTimer' = TRUE
               /\ clientInstance' = TRUE
          ELSE UNCHANGED <<queue, flushTimer, clientInstance, retired>>
    /\ config' = c
    /\ UNCHANGED <<calls, accepted, evictedLogs, batches, warnings, unhandled,
                   ret, collector, cachedConfig,
                   utilsCall, integration>>

\* getClient(c): if (!clientInstance) clientInstance = new LogSentinelClient(c)
getClient(c) ==
    /\ IF ~clientInstance
          THEN /\ retired' = Append(retired, [config |-> config,
                                              flushTimer |-> flushTimer])
               /\ config' = c
               /\ queue' = <<>>
               /\ flushTimer' = TRUE
               /\ clientInstance' = TRUE
          ELSE UNCHANGED <<config, queue, flushTimer, clientInstance, retired>>
    /\ UNCHANGED <<calls, accepted, evictedLogs, batches, warnings, unhandled,
                   ret, collector, cachedConfig,
                   utilsCall, integration>>

resetClient_noDestroy ==
    /\ Len(retired) < MaxResets
    /\ clientInstance' = FALSE
    /\ UNCHANGED <<config, queue, flushTimer, calls, accepted, evictedLogs,
                   batches, warnings, unhandled, ret, collector, retired,
                   cachedConfig,
                   utilsCall, integration>>

\* resetClient(): void clientInstance.destroy() runs destroy() up to its
\* await (clearInterval, and the dequeue and fetch of the last flush) before
\* clientInstance = null.
resetClient ==
    /\ Len(retired) < MaxResets
    /\ IF clientInstance
          THEN /\ flushTimer' = FALSE
               /\ flush(queue)
               /\ clientInstance' = FALSE
          ELSE UNCHANGED <<queue, flushTimer, batches, clientInstance>>
    /\ UNCHANGED <<config, calls, accepted, evictedLogs, warnings, unhandled,
                   ret, collector, retired, cachedConfig,
                   utilsCall, integration>>

logSingleton(draw) ==
    /\ calls < MaxSingletonCalls
    /\ log(draw)

InitSingleton ==
    /\ Init
    /\ config \in EnvConfigs

NextSingleton ==
    \/ \E c \in EnvConfigs : getClient(c)
    \/ resetClient
    \/ \E env \in EnvConfigs : getCachedConfig(env)
    \/ resetConfig
    \/ \E draw \in RandomDraws : logSingleton(draw)
    \/ TimerTick
    \/ destroy
    \/ \E i \in 1..Len(batches), outcome \in Outcomes : SendSettles(i, outcome)
    \/ \E i \in 1..Len(batches) : BackoffElapsed(i)

SpecSingleton == InitSingleton /\ [][NextSingleton]_vars

----------------------------------------------------------------------------
\* LogQueue on its own: any sequence of enqueue, dequeue and clear.

qEnqueue ==
    /\ calls < MaxCalls
    /\ calls' = calls + 1
    /\ queue' = enqueue(queue, calls + 1, config.maxQueueSize)
    /\ evictedLogs' = evictedLogs \cup enqueueDropped(queue, config.maxQueueSize)
    /\ accepted' = Append(accepted, calls + 1)
    /\ UNCHANGED <<config, flushTimer, batches, warnings, unhandled, ret,
                   collector, singleton, utilsCall, integration>>

qDequeue(n) ==
    /\ ret' = dequeueReturn(queue, n)
    /\ queue' = dequeueRest(queue, n)
    /\ UNCHANGED <<config, flushTimer, calls, accepted, evictedLogs, batches,
                   warnings, unhandled, collector, singleton,
                   utilsCall, integration>>

\* clear(): this.queue = []
qClear ==
    /\ queue' = <<>>
    /\ UNCHANGED <<config, flushTimer, calls, accepted, evictedLogs, batches,
                   warnings, unhandled, ret, collector, singleton,
                   utilsCall, integration>>

QueueNext ==
    \/ qEnqueue
    \/ \E n \in 0..MaxDequeue : qDequeue(n)
    \/ qClear

QueueSpec == Init /\ [][QueueNext]_vars

----------------------------------------------------------------------------
\* utils.ts: sanitizeBody and redactSensitiveFields.
\*
\* A string is a sequence of pieces [c, s, n]: either the literal characters
\* c (n = Len(c)), or, for a text too long to spell out, the first n
\* characters of the text named s (then c = <<>>). Object keys and header
\* names are spelled out, so that toLowerCase and includes work on their
\* characters. A JavaScript value is a record [t, parts, n, kids]: t is its
\* type, parts its characters when it is a string, n its value when it is a
\* number or a boolean (1, 0), kids its entries [k, v] in enumeration order
\* when it is an object or an array (k = <<>> in an array).

Lit(chars) == [c |-> chars, s |-> "", n |-> Len(chars)]

Text(name, len) == [c |-> <<>>, s |-> name, n |-> len]

Undefined == [t |-> "undefined", parts |-> <<>>, n |-> 0, kids |-> <<>>]

Null == [t |-> "null", parts |-> <<>>, n |-> 0, kids |-> <<>>]

Bool(b) == [t |-> "boolean", parts |-> <<>>, n |-> IF b THEN 1 ELSE 0, kids |-> <<>>]

Num(k) == [t |-> "number", parts |-> <<>>, n |-> k, kids |-> <<>>]

Str(parts) == [t |-> "string", parts |-> parts, n |-> 0, kids |-> <<>>]

Obj(entries) == [t |-> "object", parts |-> <<>>, n |-> 0, kids |-> entries]

Arr(items) ==
    [t |-> "array", parts |-> <<>>, n |-> 0,
     kids |-> [i \in DOMAIN items |-> [k |-> <<>>, v |-> items[i]]]]

\* What a throwing JSON.parse leaves in place of a value.
SyntaxError == [t |-> "SyntaxError", parts |-> <<>>, n |-> 0, kids |-> <<>>]

\* String.prototype.length
RECURSIVE strLength(_)
strLength(parts) ==
    IF parts = <<>> THEN 0 ELSE Head(parts).n + strLength(Tail(parts))

\* String.prototype.substring(0, m)
RECURSIVE substring(_, _)
substring(parts, m) ==
    IF parts = <<>> \/ m <= 0
        THEN <<>>
        ELSE LET p == Head(parts)
             IN  IF p.n <= m
                     THEN <<p>> \o substring(Tail(parts), m - p.n)
                     ELSE IF p.c = <<>>
                             THEN <<Text(p.s, m)>>
                             ELSE <<Lit(SubSeq(p.c, 1, m))>>

UpperCase ==
    <<"A", "B", "C", "D", "E", "F", "G", "H", "I", "J", "K", "L", "M",
      "N", "O", "P", "Q", "R", "S", "T", "U", "V", "W", "X", "Y", "Z">>

LowerCase ==
    <<"a", "b", "c", "d", "e", "f", "g", "h", "i", "j", "k", "l", "m",
      "n", "o", "p", "q", "r", "s", "t", "u", "v", "w", "x", "y", "z">>

\* String.prototype.toLowerCase, on spelled-out characters
toLowerCase(chars) ==
    [i \in DOMAIN chars |->
        IF \E j \in DOMAIN UpperCase : UpperCase[j] = chars[i]
            THEN LowerCase[CHOOSE j \in DOMAIN UpperCase : UpperCase[j] = chars[i]]
            ELSE chars[i]]

\* String.prototype.includes
includes(chars, field) ==
    \E i \in 0..(Len(chars) - Len(field)) :
        SubSeq(chars, i + 1, i + Len(field)) = field

\* redactSensitiveFields: const sensitiveFields = [...]
sensitiveFields ==
    <<<<"p", "a", "s", "s", "w", "o", "r", "d">>,
      <<"t", "o", "k", "e", "n">>,
      <<"a", "p", "i", "K", "e", "y">>,
      <<"a", "p", "i", "_", "k", "e", "y">>,
      <<"s", "e", "c", "r", "e", "t">>,
      <<"a", "u", "t", "h">>,
      <<"a", "u", "t", "h", "o", "r", "i", "z", "a", "t", "i", "o", "n">>,
      <<"c", "r", "e", "d", "i", "t", "C", "a", "r", "d">>,
      <<"c", "r", "e", "d", "i", "t", "_", "c", "a", "r", "d">>,
      <<"s", "s", "n">>,
      <<"p", "r", "i", "v", "a", "t", "e", "K", "e", "y">>,
      <<"p", "r", "i", "v", "a", "t", "e", "_", "k", "e", "y">>>>

\* '[REDACTED]'
REDACTED == Str(<<Lit(<<"[", "R", "E", "D", "A", "C", "T", "E", "D", "]">>)>>)

isSensitiveField_caseSensitive(key) ==
    \E f \in DOMAIN sensitiveFields : includes(key, sensitiveFields[f])

\* sensitiveFields.some(field => lowerKey.includes(field))
isSensitiveField(key) ==
    \E f \in DOMAIN sensitiveFields :
        includes(toLowerCase(key), sensitiveFields[f])

\* typeof value === 'object' && value !== null
isObject(v) == v.t \in {"object", "array"}

\* redactSensitiveFields(obj)
RECURSIVE redactSensitiveFields(_)
redactSensitiveFields(obj) ==
    IF ~isObject(obj)
        THEN obj
        ELSE IF obj.t = "array"
                THEN [obj EXCEPT !.kids =
                        [i \in DOMAIN obj.kids |->
                            [k |-> <<>>,
                             v |-> redactSensitiveFields(obj.kids[i].v)]]]
                ELSE [obj EXCEPT !.kids =
                        [i \in DOMAIN obj.kids |->
                            LET e == obj.kids[i]
                            IN  IF isSensitiveField(e.k)
                                    THEN [k |-> e.k, v |-> REDACTED]
                                    ELSE IF isObject(e.v)
                                            THEN [k |-> e.k,
                                                  v |-> redactSensitiveFields(e.v)]
                                            ELSE e]]

DigitChars == <<"0", "1", "2", "3", "4", "5", "6", "7", "8", "9">>

\* The decimal numeral of a natural number (String(k), JSON.stringify(k)).
RECURSIVE digits(_)
digits(k) ==
    IF k < 10
        THEN <<DigitChars[k + 1]>>
        ELSE digits(k \div 10) \o <<DigitChars[(k % 10) + 1]>>

\* JSON.stringify(v), for values without characters that need an escape:
\* no whitespace, keys and strings in double quotes, an undefined property
\* left out, an undefined array element written as null.
RECURSIVE stringify(_)
RECURSIVE stringifyKids(_, _, _)
stringifyKids(kids, i, isArray) ==
    IF i > Len(kids)
        THEN <<>>
        ELSE (IF i > 1 THEN <<Lit(<<",">>)>> ELSE <<>>)
             \o (IF isArray
                    THEN <<>>
                    ELSE <<Lit(<<"\"">> \o kids[i].k \o <<"\"", ":">>)>>)
             \o (IF kids[i].v.t = "undefined"
                    THEN <<Lit(<<"n", "u", "l", "l">>)>>
                    ELSE stringify(kids[i].v))
             \o stringifyKids(kids, i + 1, isArray)

stringify(v) ==
    CASE v.t = "string" -> <<Lit(<<"\"">>)>> \o v.parts \o <<Lit(<<"\"">>)>>
      [] v.t = "number" -> <<Lit(digits(v.n))>>
      [] v.t = "boolean" ->
            <<Lit(IF v.n = 1 THEN <<"t", "r", "u", "e">>
                             ELSE <<"f", "a", "l", "s", "e">>)>>
      [] v.t = "array" ->
            <<Lit(<<"[">>)>> \o stringifyKids(v.kids, 1, TRUE) \o <<Lit(<<"]">>)>>
      [] v.t = "object" ->
            <<Lit(<<"{">>)>>
            \o stringifyKids(SelectSeq(v.kids, LAMBDA e : e.v.t # "undefined"),
                             1, FALSE)
            \o <<Lit(<<"}">>)>>
      [] OTHER -> <<Lit(<<"n", "u", "l", "l">>)>>

\* sanitizeBody: if (jsonString.length > 10000)
maxBodyLength == 10000

\* sanitizeBody: substring(0, 500)
previewLength == 500

\* '...'
Ellipsis == Lit(<<".", ".", ".">>)

\* !body
falsy(v) ==
    \/ v.t \in {"undefined", "null"}
    \/ v.t \in {"number", "boolean"} /\ v.n = 0
    \/ v.t = "string" /\ strLength(v.parts) = 0

\* The object keys of the bodies that are checked.
BodyKeys ==
    {<<"p", "a", "s", "s", "w", "o", "r", "d">>,
     <<"P", "a", "s", "s", "w", "o", "r", "d">>,
     <<"P", "A", "S", "S", "W", "O", "R", "D">>,
     <<"u", "s", "e", "r", "P", "a", "s", "s", "w", "o", "r", "d">>,
     <<"t", "o", "k", "e", "n">>,
     <<"a", "p", "i", "K", "e", "y">>,
     <<"a", "p", "i", "_", "k", "e", "y">>,
     <<"s", "e", "c", "r", "e", "t">>,
     <<"a", "u", "t", "h">>,
     <<"a", "u", "t", "h", "o", "r", "i", "z", "a", "t", "i", "o", "n">>,
     <<"c", "r", "e", "d", "i", "t", "C", "a", "r", "d">>,
     <<"c", "r", "e", "d", "i", "t", "_", "c", "a", "r", "d">>,
     <<"s", "s", "n">>,
     <<"p", "r", "i", "v", "a", "t", "e", "K", "e", "y">>,
     <<"p", "r", "i", "v", "a", "t", "e", "_", "k", "e", "y">>,
     <<"n", "a", "m", "e">>,
     <<"e", "m", "a", "i", "l">>}

\* The keys that hold no sensitive data.
k_name == <<"n", "a", "m", "e">>

k_data == <<"d", "a", "t", "a">>

k_user == <<"u", "s", "e", "r">>

k_password == <<"p", "a", "s", "s", "w", "o", "r", "d">>

\* A leaf object {name: 'john', <key>: <value>, data: <pad characters>}, the
\* value being a string or, for kind "object", the object {password: 'abc'}.
Leaf(key, kind, pad) ==
    Obj((IF key = k_name
            THEN <<>>
            ELSE <<[k |-> k_name, v |-> Str(<<Lit(<<"j", "o", "h", "n">>)>>)]>>)
        \o <<[k |-> key,
              v |-> IF kind = "object"
                       THEN Obj(<<[k |-> k_password,
                                   v |-> Str(<<Lit(<<"a", "b", "c">>)>>)]>>)
                       ELSE Str(<<Lit(<<"s", "3", "c", "r", "e", "t">>)>>)]>>
        \o <<[k |-> k_data, v |-> Str(<<Text("x", pad)>>)]>>)

\* The ways to nest a value: in an object under the key user, or in an array.
RECURSIVE Paths(_)
Paths(depth) ==
    IF depth = 0
        THEN {<<>>}
        ELSE LET shorter == Paths(depth - 1)
             IN  shorter \cup {<<t>> \o p : t \in {"object", "array"},
                                            p \in {q \in shorter : Len(q) = depth - 1}}

RECURSIVE Nest(_, _)
Nest(v, path) ==
    IF path = <<>>
        THEN v
        ELSE IF Head(path) = "object"
                THEN Obj(<<[k |-> k_user, v |-> Nest(v, Tail(path))]>>)
                ELSE Arr(<<Nest(v, Tail(path))>>)

\* Bodies of a few dozen characters, the key at every depth up to MaxDepth.
SmallBodies ==
    {Nest(Leaf(key, kind, 4), path) :
        key \in BodyKeys, kind \in {"string", "object"}, path \in Paths(MaxDepth)}

\* Bodies whose JSON text is exactly len characters long.
Sized(key, len) ==
    Leaf(key, "string", len - strLength(stringify(Leaf(key, "string", 0))))

\* Bodies at the size limit and one character above it.
LargeBodies ==
    {Sized(key, len) : key \in BodyKeys, len \in {maxBodyLength, maxBodyLength + 1}}

ObjectBodies == SmallBodies \cup LargeBodies

\* The values a JSON text of the model can stand for.
JsonValues == ObjectBodies \cup {Null, Num(42), Bool(TRUE)}

\* JSON.parse(text): the value whose JSON text it is, SyntaxError if none.
JSONparse(text) ==
    IF \E v \in JsonValues : stringify(v) = text
        THEN CHOOSE v \in JsonValues : stringify(v) = text
        ELSE SyntaxError

\* Bodies that are strings: JSON texts, and texts that are not JSON.
TextBodies ==
    {Str(stringify(v)) : v \in JsonValues}
        \cup {Str(<<Text("plain", len)>>) :
                len \in {1, previewLength, previewLength + 1,
                         maxBodyLength, maxBodyLength + 1}}

\* Everything sanitizeBody is called with.
Bodies ==
    ObjectBodies \cup TextBodies
        \cup {Undefined, Null, Num(0), Num(42), Bool(FALSE), Bool(TRUE), Str(<<>>)}

k_truncated == <<"_", "t", "r", "u", "n", "c", "a", "t", "e", "d">>

k_originalSize == <<"_", "o", "r", "i", "g", "i", "n", "a", "l", "S", "i", "z", "e">>

k_preview == <<"_", "p", "r", "e", "v", "i", "e", "w">>

tooLarge_geq(jsonString) == strLength(jsonString) >= maxBodyLength

\* if (jsonString.length > 10000)
tooLarge(jsonString) == strLength(jsonString) > maxBodyLength

\* { _truncated: true, _originalSize: ..., _preview: ... }
truncationMarker(jsonString) ==
    Obj(<<[k |-> k_truncated, v |-> Bool(TRUE)],
          [k |-> k_originalSize, v |-> Num(strLength(jsonString))],
          [k |-> k_preview,
           v |-> Str(substring(jsonString, previewLength) \o <<Ellipsis>>)]>>)

\* The catch of sanitizeBody: String(body), cut to 500 characters.
safeString(str) ==
    Str(IF strLength(str) > previewLength
           THEN substring(str, previewLength) \o <<Ellipsis>>
           ELSE str)

\* sanitizeBody(body). Every value of the model can be serialized, so the
\* only exception is JSON.parse's, for a string body that is not JSON.
sanitizeBody(body) ==
    IF falsy(body)
        THEN Undefined
        ELSE LET jsonString == IF body.t = "string"
                                  THEN body.parts
                                  ELSE stringify(body)
             IN  IF tooLarge(jsonString)
                     THEN truncationMarker(jsonString)
                     ELSE LET parsed == IF body.t = "string"
                                           THEN JSONparse(jsonString)
                                           ELSE body
                          IN  IF parsed = SyntaxError
                                  THEN safeString(body.parts)
                                  ELSE IF isObject(parsed)
                                          THEN redactSensitiveFields(parsed)
                                          ELSE parsed

----------------------------------------------------------------------------
\* utils.ts: sanitizeHeaders.

\* sanitizeHeaders: const sensitiveKeys = [...]
sensitiveKeys ==
    <<<<"a", "u", "t", "h", "o", "r", "i", "z", "a", "t", "i", "o", "n">>,
      <<"c", "o", "o", "k", "i", "e">>,
      <<"x", "-", "a", "p", "i", "-", "k", "e", "y">>,
      <<"x", "-", "a", "u", "t", "h", "-", "t", "o", "k", "e", "n">>,
      <<"a", "p", "i", "-", "k", "e", "y">>>>

isSensitiveKey_caseSensitive(key) ==
    \E f \in DOMAIN sensitiveKeys : sensitiveKeys[f] = key

\* sensitiveKeys.includes(lowerKey)
isSensitiveKey(key) ==
    \E f \in DOMAIN sensitiveKeys : sensitiveKeys[f] = toLowerCase(key)

\* String(value), for the values a header can have.
String(v) ==
    CASE v.t = "string" -> v.parts
      [] v.t = "number" -> <<Lit(digits(v.n))>>
      [] v.t = "boolean" ->
            <<Lit(IF v.n = 1 THEN <<"t", "r", "u", "e">>
                             ELSE <<"f", "a", "l", "s", "e">>)>>
      [] v.t = "undefined" -> <<Lit(<<"u", "n", "d", "e", "f", "i", "n", "e", "d">>)>>
      [] v.t = "null" -> <<Lit(<<"n", "u", "l", "l">>)>>
      [] OTHER -> <<Lit(<<"[", "o", "b", "j", "e", "c", "t", " ", "O", "b", "j", "e", "c", "t", "]">>)>>

\* Array.prototype.join(', '): the elements as strings (nothing for null and
\* undefined), the separator between them.
RECURSIVE join(_, _)
join(kids, i) ==
    IF i > Len(kids)
        THEN <<>>
        ELSE (IF i > 1 THEN <<Lit(<<",", " ">>)>> ELSE <<>>)
             \o (IF kids[i].v.t \in {"undefined", "null"}
                    THEN <<>>
                    ELSE String(kids[i].v))
             \o join(kids, i + 1)

\* sanitizeHeaders(headers)
sanitizeHeaders(headers) ==
    Obj([i \in DOMAIN headers.kids |->
            LET key == headers.kids[i].k
                value == headers.kids[i].v
            IN  IF isSensitiveKey(key)
                    THEN [k |-> key, v |-> REDACTED]
                    ELSE IF value.t = "array"
                            THEN [k |-> key, v |-> Str(join(value.kids, 1))]
                            ELSE [k |-> key, v |-> Str(String(value))]])

\* The header names of the maps that are checked: the denylist in several
\* letter cases, names that contain a denylisted name, and harmless ones.
HeaderNames ==
    {<<"a", "u", "t", "h", "o", "r", "i", "z", "a", "t", "i", "o", "n">>,
     <<"A", "u", "t", "h", "o", "r", "i", "z", "a", "t", "i", "o", "n">>,
     <<"A", "U", "T", "H", "O", "R", "I", "Z", "A", "T", "I", "O", "N">>,
     <<"C", "o", "o", "k", "i", "e">>,
     <<"X", "-", "A", "P", "I", "-", "K", "e", "y">>,
     <<"x", "-", "a", "u", "t", "h", "-", "t", "o", "k", "e", "n">>,
     <<"A", "p", "i", "-", "K", "e", "y">>,
     <<"c", "o", "n", "t", "e", "n", "t", "-", "t", "y", "p", "e">>,
     <<"s", "e", "t", "-", "c", "o", "o", "k", "i", "e">>,
     <<"x", "-", "a", "u", "t", "h", "o", "r", "i", "z", "a", "t", "i", "o", "n">>,
     <<"a", "c", "c", "e", "p", "t">>}

h_contentType == <<"c", "o", "n", "t", "e", "n", "t", "-", "t", "y", "p", "e">>

\* The values of a header: a string, a number, nothing, lists of strings.
HeaderValues ==
    {Str(<<Lit(<<"B", "e", "a", "r", "e", "r", " ", "a", "b", "c">>)>>), Num(42), Undefined, Arr(<<>>),
     Arr(<<Str(<<Lit(<<"a", "=", "1">>)>>)>>),
     Arr(<<Str(<<Lit(<<"a", "=", "1">>)>>), Str(<<Lit(<<"b", "=", "2">>)>>)>>)}

\* The header maps sanitizeHeaders is called with: none, one or two headers.
HeaderMaps ==
    {Obj(<<>>)}
        \cup {Obj(<<[k |-> name, v |-> value]>>) :
                name \in HeaderNames, value \in HeaderValues}
        \cup {Obj(<<[k |-> name, v |-> value],
                    [k |-> h_contentType, v |-> Str(<<Lit(<<"a", "p", "p", "l", "i", "c", "a", "t", "i", "o", "n", "/", "j", "s", "o", "n">>)>>)]>>) :
                name \in HeaderNames \ {h_contentType}, value \in HeaderValues}
        \cup {Obj(<<[k |-> h_contentType, v |-> Str(<<Lit(<<"a", "p", "p", "l", "i", "c", "a", "t", "i", "o", "n", "/", "j", "s", "o", "n">>)>>)],
                    [k |-> name, v |-> value]>>) :
                name \in HeaderNames \ {h_contentType}, value \in HeaderValues}

----------------------------------------------------------------------------
\* utils.ts: getConfig. process.env is a record of strings, <<>> for a
\* variable that is not set. A number is [nan, val]; the sample rate is
\* counted in hundredths, as in the client above (100 is the rate 1.0).

NaN == [nan |-> TRUE, val |-> 0]

Number(k) == [nan |-> FALSE, val |-> k]

isDigit(ch) == \E j \in DOMAIN DigitChars : DigitChars[j] = ch

digitValue(ch) == (CHOOSE j \in DOMAIN DigitChars : DigitChars[j] = ch) - 1

\* The leading white space of a string, removed.
RECURSIVE trimStart(_)
trimStart(chars) ==
    IF chars # <<>> /\ Head(chars) = " " THEN trimStart(Tail(chars)) ELSE chars

\* The decimal digits a string starts with.
RECURSIVE leadingDigits(_)
leadingDigits(chars) ==
    IF chars # <<>> /\ isDigit(Head(chars))
        THEN <<Head(chars)>> \o leadingDigits(Tail(chars))
        ELSE <<>>

\* The value of a sequence of decimal digits.
RECURSIVE numeral(_)
numeral(ds) ==
    IF ds = <<>>
        THEN 0
        ELSE 10 * numeral(SubSeq(ds, 1, Len(ds) - 1)) + digitValue(ds[Len(ds)])

hasSign(chars) == chars # <<>> /\ Head(chars) \in {"-", "+"}

signOf(chars) == IF chars # <<>> /\ Head(chars) = "-" THEN -1 ELSE 1

\* parseInt(string, 10): white space, a sign, then digits up to the first
\* character that is none; NaN when there is no digit.
parseInt(string) ==
    LET s == trimStart(string)
        rest == IF hasSign(s) THEN Tail(s) ELSE s
        ds == leadingDigits(rest)
    IN  IF ds = <<>> THEN NaN ELSE Number(signOf(s) * numeral(ds))

\* parseFloat(string), in hundredths: white space, a sign, digits, and a
\* point with digits, of which the first two count here; NaN when there is
\* no digit. (No string of the model has an exponent or a third decimal.)
parseFloat(string) ==
    LET s == trimStart(string)
        rest == IF hasSign(s) THEN Tail(s) ELSE s
        int == leadingDigits(rest)
        after == SubSeq(rest, Len(int) + 1, Len(rest))
        frac == IF after # <<>> /\ Head(after) = "."
                   THEN leadingDigits(Tail(after))
                   ELSE <<>>
        hundredths == numeral(SubSeq(frac \o <<"0", "0">>, 1, 2))
    IN  IF int = <<>> /\ frac = <<>>
            THEN NaN
            ELSE Number(signOf(s) * (100 * numeral(int) + hundredths))

\* a || b, for strings: b when a is not set or empty.
orElse(a, b) == IF a = <<>> THEN b ELSE a

missingRequired_apiKeyOnly(apiKey, baseUrl) == apiKey = <<>>

\* getConfig(): if (!apiKey || !baseUrl)
missingRequired(apiKey, baseUrl) == apiKey = <<>> \/ baseUrl = <<>>

\* getConfig(): null (<<>>) without an API key or a base URL, otherwise the
\* configuration read from the environment with the defaults of
\* DEFAULT_CONFIG for what is not set.
getConfig(env) ==
    LET apiKey == orElse(env.LOGSENTINEL_API_KEY,
                         env.NEXT_PUBLIC_LOGSENTINEL_API_KEY)
        baseUrl == orElse(env.LOGSENTINEL_BASE_URL,
                          env.NEXT_PUBLIC_LOGSENTINEL_BASE_URL)
        debug == \/ env.LOGSENTINEL_DEBUG = <<"t", "r", "u", "e">>
                 \/ env.NEXT_PUBLIC_LOGSENTINEL_DEBUG = <<"t", "r", "u", "e">>
    IN  IF missingRequired(apiKey, baseUrl)
            THEN <<>>
            ELSE <<[apiKey |-> apiKey,
                    baseUrl |-> baseUrl,
                    enabled |-> TRUE,
                    sampleRate |->
                        parseFloat(orElse(env.LOGSENTINEL_SAMPLE_RATE, <<"1", ".", "0">>)),
                    batchSize |->
                        parseInt(orElse(env.LOGSENTINEL_BATCH_SIZE, <<"1", "0">>)),
                    batchInterval |->
                        parseInt(orElse(env.LOGSENTINEL_BATCH_INTERVAL, <<"5", "0", "0", "0">>)),
                    maxQueueSize |->
                        parseInt(orElse(env.LOGSENTINEL_MAX_QUEUE_SIZE, <<"1", "0", "0", "0">>)),
                    timeout |->
                        parseInt(orElse(env.LOGSENTINEL_TIMEOUT, <<"5", "0", "0", "0">>)),
                    captureResponseBody |->
                        env.LOGSENTINEL_CAPTURE_RESPONSE_BODY = <<"t", "r", "u", "e">>,
                    debug |-> debug]>>

\* An environment in which nothing is set.
emptyEnv ==
    [LOGSENTINEL_API_KEY |-> <<>>,
     NEXT_PUBLIC_LOGSENTINEL_API_KEY |-> <<>>,
     LOGSENTINEL_BASE_URL |-> <<>>,
     NEXT_PUBLIC_LOGSENTINEL_BASE_URL |-> <<>>,
     LOGSENTINEL_DEBUG |-> <<>>,
     NEXT_PUBLIC_LOGSENTINEL_DEBUG |-> <<>>,
     LOGSENTINEL_SAMPLE_RATE |-> <<>>,
     LOGSENTINEL_BATCH_SIZE |-> <<>>,
     LOGSENTINEL_BATCH_INTERVAL |-> <<>>,
     LOGSENTINEL_MAX_QUEUE_SIZE |-> <<>>,
     LOGSENTINEL_TIMEOUT |-> <<>>,
     LOGSENTINEL_CAPTURE_RESPONSE_BODY |-> <<>>]

\* The ways the API key and the base URL are set or missing.
KeyEnvs ==
    {[emptyEnv EXCEPT !.LOGSENTINEL_API_KEY = k1,
                      !.NEXT_PUBLIC_LOGSENTINEL_API_KEY = k2,
                      !.LOGSENTINEL_BASE_URL = u1,
                      !.NEXT_PUBLIC_LOGSENTINEL_BASE_URL = u2] :
        k1 \in {<<>>, <<"k", "e", "y">>}, k2 \in {<<>>, <<"p", "k", "e", "y">>},
        u1 \in {<<>>, <<"h", "t", "t", "p", "s", ":", "/", "/", "a", ".", "b">>}, u2 \in {<<>>, <<"h", "t", "t", "p", "s", ":", "/", "/", "c", ".", "d">>}}

\* What the numeric variables are set to: numbers, valid and not, and text.
IntStrings ==
    {<<>>, <<"1">>, <<"2", "5">>, <<"0">>, <<"-", "5">>, <<"a", "b", "c">>, <<"1", "2", "p", "x">>, <<"2", ".", "5">>, <<" ", "7">>}

RateStrings ==
    {<<>>, <<"1", ".", "0">>, <<"0", ".", "5">>, <<"0">>, <<".", "2", "5">>, <<"1">>, <<"1", ".", "5">>, <<"-", "0", ".", "5">>, <<"2">>, <<"a", "b", "c">>}

\* The environments getConfig is called in: every way of setting the keys,
\* with one of the numeric variables set and the others left to their default.
Envs ==
    {[e EXCEPT !.LOGSENTINEL_SAMPLE_RATE = s] : e \in KeyEnvs, s \in RateStrings}
        \cup {[e EXCEPT !.LOGSENTINEL_BATCH_SIZE = s] : e \in KeyEnvs, s \in IntStrings}
        \cup {[e EXCEPT !.LOGSENTINEL_BATCH_INTERVAL = s] : e \in KeyEnvs, s \in IntStrings}
        \cup {[e EXCEPT !.LOGSENTINEL_MAX_QUEUE_SIZE = s] : e \in KeyEnvs, s \in IntStrings}
        \cup {[e EXCEPT !.LOGSENTINEL_TIMEOUT = s] : e \in KeyEnvs, s \in IntStrings}
        \cup {[e EXCEPT !.LOGSENTINEL_DEBUG = <<"t", "r", "u", "e">>,
                        !.LOGSENTINEL_CAPTURE_RESPONSE_BODY = <<"t", "r", "u", "e">>] : e \in KeyEnvs}

----------------------------------------------------------------------------
\* The stateless functions on their own: one call, its argument drawn from
\* the sets above.

\* A call of sanitizeBody returns.
sanitizeBodyCall ==
    /\ output = <<>>
    /\ input[1] = "sanitizeBody"
    /\ output' = <<sanitizeBody(input[2])>>
    /\ UNCHANGED <<config, queue, flushTimer, calls, accepted, evictedLogs,
                   batches, warnings, unhandled, ret, collector, singleton,
                   input, integration>>

\* A call of sanitizeHeaders returns.
sanitizeHeadersCall ==
    /\ output = <<>>
    /\ input[1] = "sanitizeHeaders"
    /\ output' = <<sanitizeHeaders(input[2])>>
    /\ UNCHANGED <<config, queue, flushTimer, calls, accepted, evictedLogs,
                   batches, warnings, unhandled, ret, collector, singleton,
                   input, integration>>

\* A call of getConfig returns.
getConfigCall ==
    /\ output = <<>>
    /\ input[1] = "getConfig"
    /\ output' = <<getConfig(input[2])>>
    /\ UNCHANGED <<config, queue, flushTimer, calls, accepted, evictedLogs,
                   batches, warnings, unhandled, ret, collector, singleton,
                   input, integration>>

UtilsCalls ==
    {<<"sanitizeBody", body>> : body \in Bodies}
        \cup {<<"sanitizeHeaders", headers>> : headers \in HeaderMaps}
        \cup {<<"getConfig", env>> : env \in Envs}

InitUtils ==
    /\ config = [sampleRate |-> 100, batchSize |-> 1, maxQueueSize |-> 1]
    /\ queue = <<>>
    /\ flushTimer = TRUE
    /\ calls = 0
    /\ accepted = <<>>
    /\ evictedLogs = {}
    /\ batches = <<>>
    /\ warnings = 0
    /\ unhandled = FALSE
    /\ ret = <<>>
    /\ collector = [i \in 1..MaxCalls |-> 0]
    /\ clientInstance = TRUE
    /\ retired = <<>>
    /\ cachedConfig = <<>>
    /\ input \in UtilsCalls
    /\ output = <<>>
    /\ processEnv = <<>>
    /\ handlerCalls = <<>>
    /\ payloads = <<>>

NextUtils ==
    \/ sanitizeBodyCall
    \/ sanitizeHeadersCall
    \/ getConfigCall

SpecUtils == InitUtils /\ [][NextUtils]_vars

----------------------------------------------------------------------------
\* The integration entry points: logSentinelMiddleware, withLogSentinel and
\* withLogSentinelAppRouter, in a process that starts without a client.
\* handlerCalls has one entry per call of a wrapped handler: the arguments
\* the wrapper got and the arguments of each call it made to the host's
\* handler (for the middleware: to NextResponse.next()). payloads has one
\* entry per payload built: what the wrapper read from the request and the
\* response (raw) and what it passes to log() (log). The payload
\* payloads[id] is the event id of the queue and the batches.

\* new LogSentinelClient(config): the fields of the config the client model
\* uses (a batch size of NaN behaves as 0: nothing is dequeued).
clientConfig(c) ==
    [sampleRate |-> c.sampleRate.val,
     batchSize |-> IF c.batchSize.nan THEN 0 ELSE c.batchSize.val,
     maxQueueSize |-> c.maxQueueSize.val]

\* headersToObject(headers): out[String(key)] = String(value)
headersToObject(headers) ==
    IF headers.t # "object"
        THEN Obj(<<>>)
        ELSE Obj([i \in DOMAIN headers.kids |->
                    [k |-> headers.kids[i].k,
                     v |-> Str(String(headers.kids[i].v))]])

\* x ? sanitizeBody(x) : undefined
sanitizeIfPresent(body) == IF falsy(body) THEN Undefined ELSE sanitizeBody(body)

\* request.method !== 'GET' && request.method !== 'HEAD'
hasBody(method) == method \notin {"GET", "HEAD"}

\* The payload of logSentinelMiddleware; the response is NextResponse.next().
middlewarePayload(c, request, response) ==
    LET requestBody == IF hasBody(request.method) THEN request.body ELSE Undefined
        responseBody == IF c.captureResponseBody THEN response.body ELSE Undefined
    IN  [wrapper |-> "logSentinelMiddleware",
         raw |-> [requestHeaders |-> request.headers,
                  responseHeaders |-> response.headers,
                  requestBody |-> requestBody,
                  responseBody |-> responseBody],
         log |-> [requestHeaders |-> sanitizeHeaders(headersToObject(request.headers)),
                  responseHeaders |-> sanitizeHeaders(headersToObject(response.headers)),
                  requestBody |-> sanitizeIfPresent(requestBody),
                  responseBody |-> sanitizeIfPresent(responseBody)]]

k_message == <<"m", "e", "s", "s", "a", "g", "e">>

k_stack == <<"s", "t", "a", "c", "k">>

\* Reading a property of undefined or null throws a TypeError.
readThrows(value) == value.t \in {"undefined", "null"}

\* value[key] of a value that can be read: the property of an object (the
\* last entry of that key), undefined for what has no such property.
member(value, key) ==
    LET at == {i \in DOMAIN value.kids : value.kids[i].k = key}
    IN  IF value.t = "object" /\ at # {}
            THEN value.kids[CHOOSE i \in at : \A j \in at : j <= i].v
            ELSE Undefined

\* withLogSentinel, catch: { message: (error as Error).message,
\*                           stack: (error as Error).stack }
errorDescriptor(error) ==
    Obj(<<[k |-> k_message, v |-> member(error, k_message)],
          [k |-> k_stack, v |-> member(error, k_stack)]>>)

\* withLogSentinel: whether the log task throws before it reaches
\* client.log(logPayload); the task of the catch reads error.message.
apiRouteTaskThrows(response) == response.threw /\ readThrows(response.error)

\* The payload of withLogSentinel: after the handler returned, and in the
\* catch after it threw (status 500, the error, no response headers, no
\* response body).
apiRoutePayload(request, response) ==
    [wrapper |-> "withLogSentinel",
     raw |-> [requestHeaders |-> request.headers,
              responseHeaders |-> response.headers,
              requestBody |-> request.body,
              responseBody |-> response.body],
     log |-> [statusCode |-> IF response.threw THEN 500 ELSE response.statusCode,
              error |-> IF response.threw
                           THEN errorDescriptor(response.error)
                           ELSE Undefined,
              requestHeaders |-> sanitizeHeaders(request.headers),
              responseHeaders |-> IF response.threw
                                     THEN Undefined
                                     ELSE sanitizeHeaders(response.headers),
              requestBody |-> sanitizeBody(request.body),
              responseBody |-> IF response.threw
                                  THEN Undefined
                                  ELSE sanitizeBody(response.body)]]

\* The payload of withLogSentinelAppRouter: requestBody is JSON.parse of the
\* request text, responseBody the JSON of the response; a handler that
\* threw is answered by Response.json({ error }, { status: 500 }).
appRouterPayload(request, response) ==
    LET requestBody == IF hasBody(request.method) THEN request.body ELSE Undefined
    IN  [wrapper |-> "withLogSentinelAppRouter",
         raw |-> [requestHeaders |-> request.headers,
                  responseHeaders |-> response.headers,
                  requestBody |-> requestBody,
                  responseBody |-> response.body],
         log |-> [requestHeaders |-> sanitizeHeaders(headersToObject(request.headers)),
                  responseHeaders |-> sanitizeHeaders(headersToObject(response.headers)),
                  requestBody |-> requestBody,
                  responseBody |-> response.body]]

\* const config = getCachedConfig(): what it returns, null being <<>>.
cachedOrRead == IF cachedConfig = <<>> THEN getConfig(processEnv) ELSE cachedConfig[1]

\* One call of a wrapped handler up to its log task's call of client.log:
\* getCachedConfig(); without a config the host's handler is called with the
\* arguments as they came; with one, getClient(config), the call of the
\* handler and the log task. task is the payload the task hands to
\* client.log, or empty when the task throws before that (an unhandled
\* rejection); outcome is what the handler did and how the wrapper's promise
\* settled, for the wrappers that hand the handler's outcome on.
wrapped(wrapper, request, patched, task, outcome) ==
    /\ cachedConfig' = <<cachedOrRead>>
    /\ IF cachedOrRead = <<>>
          THEN /\ handlerCalls' =
                      Append(handlerCalls,
                             [wrapper |-> wrapper,
                              request |-> request,
                              invoked |-> <<[request |-> request,
                                             patched |-> FALSE]>>,
                              outcome |-> outcome,
                              task |-> <<>>])
               /\ UNCHANGED <<config, queue, flushTimer, clientInstance, payloads,
                              unhandled>>
          ELSE /\ IF ~clientInstance
                     THEN /\ config' = clientConfig(cachedOrRead[1])
                          /\ queue' = <<>>
                          /\ flushTimer' = TRUE
                          /\ clientInstance' = TRUE
                     ELSE UNCHANGED <<config, queue, flushTimer, clientInstance>>
               /\ handlerCalls' =
                      Append(handlerCalls,
                             [wrapper |-> wrapper,
                              request |-> request,
                              invoked |-> <<[request |-> request,
                                             patched |-> patched]>>,
                              outcome |-> outcome,
                              task |-> [k \in DOMAIN task |-> Len(payloads) + k]])
               /\ payloads' = payloads \o task
               /\ unhandled' = (unhandled \/ task = <<>>)
    /\ UNCHANGED <<calls, accepted, evictedLogs, batches, warnings,
                   ret, collector, retired, utilsCall, processEnv>>

\* logSentinelMiddleware(request)
logSentinelMiddleware(request, response) ==
    /\ Len(handlerCalls) < MaxRequests
    /\ wrapped("logSentinelMiddleware", request, FALSE,
               <<middlewarePayload(cachedOrRead[1], request, response)>>, <<>>)

\* What the handler did: the value it returned or the error it threw.
handled(response) ==
    [threw |-> response.threw,
     value |-> IF response.threw THEN response.error ELSE response.result]

\* withLogSentinel: how the promise of the wrapper settles: return result
\* after the handler returned, throw error in the catch; return handler(req,
\* res) without a config.
apiRouteSettled(response) ==
    IF response.threw
        THEN [threw |-> TRUE, value |-> response.error]
        ELSE [threw |-> FALSE, value |-> response.result]

\* withLogSentinel(handler)(req, res): res.json, res.send and res.end are
\* replaced before the handler is called.
withLogSentinel(request, response) ==
    /\ Len(handlerCalls) < MaxRequests
    /\ wrapped("withLogSentinel", request, TRUE,
               IF apiRouteTaskThrows(response)
                   THEN <<>>
                   ELSE <<apiRoutePayload(request, response)>>,
               <<[handled |-> handled(response),
                  settled |-> apiRouteSettled(response)]>>)

\* withLogSentinelAppRouter(handler)(request, context)
withLogSentinelAppRouter(request, response) ==
    /\ Len(handlerCalls) < MaxRequests
    /\ wrapped("withLogSentinelAppRouter", request, FALSE,
               <<appRouterPayload(request, response)>>, <<>>)

\* The log task of a wrapped call: client.log(logPayload).
logTask(draw) ==
    /\ calls < Len(payloads)
    /\ log(draw)

\* { name: 'john', password: 's3cret', data: 'xxxx' }
secretBody == Leaf(k_password, "string", 4)

requestHeaders ==
    Obj(<<[k |-> <<"A", "u", "t", "h", "o", "r", "i", "z", "a", "t", "i", "o", "n">>, v |-> Str(<<Lit(<<"B", "e", "a", "r", "e", "r", " ", "a", "b", "c">>)>>)],
          [k |-> h_contentType, v |-> Str(<<Lit(<<"a", "p", "p", "l", "i", "c", "a", "t", "i", "o", "n", "/", "j", "s", "o", "n">>)>>)]>>)

responseHeaders ==
    Obj(<<[k |-> h_contentType, v |-> Str(<<Lit(<<"a", "p", "p", "l", "i", "c", "a", "t", "i", "o", "n", "/", "j", "s", "o", "n">>)>>)],
          [k |-> <<"s", "e", "t", "-", "c", "o", "o", "k", "i", "e">>, v |-> Str(<<Lit(<<"s", "i", "d", "=", "1">>)>>)]>>)

\* The requests the wrapped handlers get.
Requests ==
    {[method |-> "GET", headers |-> requestHeaders, body |-> Undefined],
     [method |-> "POST", headers |-> requestHeaders, body |-> secretBody]}

\* new Error('Test error')
TestError ==
    Obj(<<[k |-> k_message, v |-> Str(<<Lit(<<"T", "e", "s", "t", " ", "e", "r", "r", "o", "r">>)>>)],
          [k |-> k_stack, v |-> Str(<<Text("stack", 40)>>)]>>)

\* What a handler can throw: an Error, or any other value, undefined (a
\* promise rejected without a reason) among them.
Thrown == {TestError, Undefined}

\* What the host's handler does: it answers with a JSON body (status 201)
\* and returns a value, or it throws.
Responses ==
    {[threw |-> FALSE, headers |-> responseHeaders, body |-> secretBody,
      statusCode |-> 201, result |-> Num(1), error |-> Undefined]}
    \cup {[threw |-> TRUE, headers |-> Undefined, body |-> Undefined,
           statusCode |-> 200, result |-> Undefined, error |-> error] :
             error \in Thrown}

\* The response of NextResponse.next().
nextResponse ==
    [threw |-> FALSE, headers |-> responseHeaders, body |-> Undefined,
     statusCode |-> 200, result |-> Undefined, error |-> Undefined]

\* The response withLogSentinelAppRouter makes of a handler that threw.
errorResponse ==
    [threw |-> TRUE,
     headers |-> Obj(<<[k |-> h_contentType, v |-> Str(<<Lit(<<"a", "p", "p", "l", "i", "c", "a", "t", "i", "o", "n", "/", "j", "s", "o", "n">>)>>)]>>),
     body |-> Undefined,
     statusCode |-> 500, result |-> Undefined, error |-> Undefined]

\* The environments of the process: nothing set, one of the two required
\* variables missing, both set (with the default batch size of 10, which
\* leaves flushing to the timer, and with a batch size of 1).
IntegrationEnvs ==
    {emptyEnv,
     [emptyEnv EXCEPT !.LOGSENTINEL_API_KEY = <<"k", "e", "y">>],
     [emptyEnv EXCEPT !.NEXT_PUBLIC_LOGSENTINEL_BASE_URL = <<"h", "t", "t", "p", "s", ":", "/", "/", "a", ".", "b">>],
     [emptyEnv EXCEPT !.LOGSENTINEL_API_KEY = <<"k", "e", "y">>,
                      !.LOGSENTINEL_BASE_URL = <<"h", "t", "t", "p", "s", ":", "/", "/", "a", ".", "b">>],
     [emptyEnv EXCEPT !.NEXT_PUBLIC_LOGSENTINEL_API_KEY = <<"k", "e", "y">>,
                      !.LOGSENTINEL_BASE_URL = <<"h", "t", "t", "p", "s", ":", "/", "/", "a", ".", "b">>,
                      !.LOGSENTINEL_BATCH_SIZE = <<"1">>,
                      !.LOGSENTINEL_CAPTURE_RESPONSE_BODY = <<"t", "r", "u", "e">>]}

\* The process before the first request: no client, no timer, nothing cached.
\* The collector accepts every batch at its first attempt (the retries are
\* the subject of the client's own specification).
InitIntegration ==
    /\ config = [sampleRate |-> 100, batchSize |-> 1, maxQueueSize |-> 1]
    /\ queue = <<>>
    /\ flushTimer = FALSE
    /\ calls = 0
    /\ accepted = <<>>
    /\ evictedLogs = {}
    /\ batches = <<>>
    /\ warnings = 0
    /\ unhandled = FALSE
    /\ ret = <<>>
    /\ collector = [i \in 1..MaxCalls |-> 0]
    /\ clientInstance = FALSE
    /\ retired = <<>>
    /\ cachedConfig = <<>>
    /\ input = <<>>
    /\ output = <<>>
    /\ processEnv \in IntegrationEnvs
    /\ handlerCalls = <<>>
    /\ payloads = <<>>

NextIntegration ==
    \/ \E request \in Requests : logSentinelMiddleware(request, nextResponse)
    \/ \E request \in Requests, response \in Responses :
           withLogSentinel(request, response)
    \/ \E request \in Requests, response \in Responses :
           withLogSentinelAppRouter(request,
                                    IF response.threw THEN errorResponse
                                                      ELSE response)
    \/ \E draw \in RandomDraws : logTask(draw)
    \/ TimerTick
    \/ \E i \in 1..Len(batches) : SendSettles(i, "ok")

SpecIntegration == InitIntegration /\ [][NextIntegration]_vars

----------------------------------------------------------------------------
\* Properties of LogQueue (checked under QueueSpec)

\* C1: the queue never holds more than its capacity (maxSize >= 1), whatever
\* sequence of enqueue, dequeue and clear produced it.
C1_QueueBound == size(queue) <= config.maxQueueSize

\* The queue is full and an enqueue has already overflowed.
C1_Witness ==
    /\ size(queue) = config.maxQueueSize
    /\ evictedLogs # {}

\* C2: enqueue on a full queue removes exactly the oldest element, appends the
\* new one at the tail and keeps the order of the others; on a queue that is not
\* full it removes nothing. (enqueue has no failure path and nothing to wait
\* for: qEnqueue is guarded only by the bound on the number of calls.)
C2_EnqueueEvictsOldest ==
    [][qEnqueue =>
          LET n == Len(queue)
              new == calls + 1
          IN  IF n = config.maxQueueSize
                 THEN /\ Len(queue') = n
                      /\ queue'[n] = new
                      /\ \A k \in 1..(n - 1) : queue'[k] = queue[k + 1]
                      /\ evictedLogs' = evictedLogs \cup {queue[1]}
                      /\ \A k \in 2..n : queue[1] < queue[k]
                 ELSE /\ Len(queue') = n + 1
                      /\ queue'[n + 1] = new
                      /\ \A k \in 1..n : queue'[k] = queue[k]
                      /\ evictedLogs' = evictedLogs
    ]_vars

\* Two enqueues have overflowed a queue of capacity 2: the two oldest events
\* are gone and the queue holds the two newest in order.
C2_Witness ==
    /\ config.maxQueueSize = 2
    /\ evictedLogs = {1}
    /\ queue = <<2, 3>>

\* C3: dequeue(n), n >= 0, returns the min(n, size) oldest elements in enqueue
\* order and leaves the others in order; with n >= size it returns everything
\* and empties the queue; on an empty queue it returns the empty sequence.
C3_DequeueFifo ==
    [][\A n \in 0..MaxDequeue :
          qDequeue(n) =>
              LET k == IF n < Len(queue) THEN n ELSE Len(queue)
              IN  /\ Len(ret') = k
                  /\ \A j \in 1..k : ret'[j] = queue[j]
                  /\ Len(queue') = Len(queue) - k
                  /\ \A j \in 1..(Len(queue) - k) : queue'[j] = queue[k + j]
                  /\ \A j \in 1..(Len(ret') - 1) : ret'[j] < ret'[j + 1]
                  /\ (n >= Len(queue) => ret' = queue /\ queue' = <<>>)
                  /\ (queue = <<>> => ret' = <<>>)
    ]_vars

\* A dequeue(1) returned the older of two elements and left the newer.
C3_Witness ==
    /\ ret = <<1>>
    /\ queue = <<2>>
    /\ evictedLogs = {}

----------------------------------------------------------------------------
\* Properties of the client (checked under Spec)

LogStep == \E draw \in RandomDraws : log(draw)

\* The events of batch i.
BatchEvents(i) == {batches[i].logs[k] : k \in 1..Len(batches[i].logs)}

QueueEvents == {queue[k] : k \in 1..Len(queue)}

\* C4: with sample rate 1 and 1 <= batchSize <= capacity, a log() call that
\* leaves the queue below batchSize constructs no batch and sends nothing; the
\* call that brings it to batchSize returns with the queue empty and exactly
\* one new batch, holding exactly the batchSize events logged since the queue
\* was empty, already handed to fetch (first attempt in flight).
C4_SizeTriggeredFlush ==
    [][(/\ LogStep
        /\ config.sampleRate = 100
        /\ config.batchSize >= 1
        /\ config.batchSize <= config.maxQueueSize)
       => /\ Len(queue) < config.batchSize
          /\ IF Len(queue) + 1 < config.batchSize
                THEN /\ batches' = batches
                     /\ queue' = Append(queue, calls + 1)
                ELSE /\ queue' = <<>>
                     /\ Len(batches') = Len(batches) + 1
                     /\ \A i \in 1..Len(batches) : batches'[i] = batches[i]
                     /\ batches'[Len(batches')].logs = Append(queue, calls + 1)
                     /\ Len(batches'[Len(batches')].logs) = config.batchSize
                     /\ batches'[Len(batches')].st = "SENDING"
                     /\ batches'[Len(batches')].attempt = 1
    ]_vars

\* batchSize 2: the first log() sent nothing, the second one returned with the
\* queue empty and the one batch <<1, 2>> in flight.
C4_Witness ==
    /\ config.sampleRate = 100
    /\ config.batchSize = 2
    /\ config.maxQueueSize = 2
    /\ calls = 2
    /\ queue = <<>>
    /\ batches = <<[logs |-> <<1, 2>>, attempt |-> 1, st |-> "SENDING", slept |-> 0,
                  batchId |-> 1, sentAt |-> 1]>>

\* C5 as stated: k events accepted, 1 <= k < batchSize, nothing flushed yet,
\* then a timer tick: exactly one batch is constructed and it holds exactly
\* those k events; a tick on the then empty queue sends nothing.
C5_TimerFlushAllAccepted ==
    [][/\ (TimerTick /\ batches = <<>> /\ Len(accepted) >= 1
                     /\ Len(accepted) < config.batchSize)
          => /\ Len(batches') = 1
             /\ batches'[1].logs = accepted
             /\ queue' = <<>>
       /\ (TimerTick /\ queue = <<>>) => batches' = batches
    ]_vars

\* C5 amended: the same when also k <= maxQueueSize (a smaller queue has
\* evicted the oldest of the k events before the tick); and in general a tick
\* on a queue of 1..batchSize-1 events sends exactly the queue's content as
\* one batch and empties the queue.
C5_TimerFlush ==
    [][/\ (TimerTick /\ batches = <<>> /\ Len(accepted) >= 1
                     /\ Len(accepted) < config.batchSize
                     /\ Len(accepted) <= config.maxQueueSize)
          => /\ Len(batches') = 1
             /\ batches'[1].logs = accepted
             /\ queue' = <<>>
       /\ (TimerTick /\ Len(queue) >= 1 /\ Len(queue) < config.batchSize)
          => /\ Len(batches') = Len(batches) + 1
             /\ \A i \in 1..Len(batches) : batches'[i] = batches[i]
             /\ batches'[Len(batches')] =
                    [logs |-> queue, attempt |-> 1, st |-> "SENDING", slept |-> 0,
                     batchId |-> Len(batches) + 1, sentAt |-> Len(batches) + 1]
             /\ queue' = <<>>
       /\ (TimerTick /\ queue = <<>>) => batches' = batches
    ]_vars

\* Two events were accepted with batchSize 3, then the timer (still live, so
\* destroy() was never called) sent them as the one batch.
C5_Witness ==
    /\ flushTimer
    /\ config.batchSize = 3
    /\ accepted = <<1, 2>>
    /\ queue = <<>>
    /\ Len(batches) = 1
    /\ batches[1].logs = <<1, 2>>

\* C6: an event is claimed by at most one flush: no batch holds an event
\* twice, no two batches share an event, and no event of a batch was evicted
\* by the queue's overflow.
C6_ClaimedOnce ==
    /\ \A i \in 1..Len(batches) :
          \A k1, k2 \in 1..Len(batches[i].logs) :
              k1 # k2 => batches[i].logs[k1] # batches[i].logs[k2]
    /\ \A i, j \in 1..Len(batches) :
          i # j => BatchEvents(i) \cap BatchEvents(j) = {}
    /\ \A i \in 1..Len(batches) : BatchEvents(i) \cap evictedLogs = {}

\* Two flushes overlapped (the first batch is in backoff while the second is
\* being sent) after the queue had overflowed.
C6_Witness ==
    /\ Len(batches) = 2
    /\ batches[1].st = "RETRYING"
    /\ batches[2].st = "SENDING"
    /\ evictedLogs # {}

\* C8: nothing escapes: no error leaves log() and no flush() ends in an
\* unhandled rejection, whatever the transport does; every batch whose retries
\* are exhausted ended in flush()'s catch block (one warning each).
C8_NothingEscapes ==
    /\ unhandled = FALSE
    /\ warnings = Cardinality({i \in 1..Len(batches) : batches[i].st = "FAILED"})

\* A flush started by log() (a full batch) has exhausted its retries.
C8_Witness ==
    /\ \E i \in 1..Len(batches) :
          /\ batches[i].st = "FAILED"
          /\ Len(batches[i].logs) = config.batchSize
    /\ warnings >= 1

\* C9: log() returns while the send it started is pending: the batch a log()
\* call constructs is in its first attempt, not settled, when the call
\* returns; the call does not touch the other batches, and log() can be called
\* whatever state (sending, backoff) the batches in flight are in.
C9_LogDoesNotWait ==
    /\ [][(LogStep /\ Len(batches') > Len(batches))
           => /\ batches'[Len(batches')].st = "SENDING"
              /\ batches'[Len(batches')].attempt = 1
              /\ \A i \in 1..Len(batches) : batches'[i] = batches[i]
        ]_vars
    /\ [](calls < MaxCalls => ENABLED LogStep)

\* log() returned with its batch in flight while an earlier batch was waiting
\* in its retry backoff.
C9_Witness ==
    /\ Len(batches) = 2
    /\ batches[1].st = "RETRYING"
    /\ batches[2] = [logs |-> <<2>>, attempt |-> 1, st |-> "SENDING", slept |-> 0,
                     batchId |-> 2, sentAt |-> 2]
    /\ config.batchSize = 1
    /\ calls = 2

\* C10: a batch fails for good only at its 3rd attempt, and no attempt beyond
\* the 3rd is made; its events are then in no queue and in no other batch, one
\* warning is logged for it and flush() does not raise.
C10_ExhaustedRetries ==
    /\ \A i \in 1..Len(batches) :
          /\ batches[i].attempt \in 1..maxAttempts
          /\ batches[i].st = "RETRYING" => batches[i].attempt < maxAttempts
          /\ batches[i].st = "FAILED" =>
                /\ batches[i].attempt = maxAttempts
                /\ BatchEvents(i) \cap QueueEvents = {}
                /\ \A j \in 1..Len(batches) :
                      j # i => BatchEvents(i) \cap BatchEvents(j) = {}
    /\ warnings = Cardinality({i \in 1..Len(batches) : batches[i].st = "FAILED"})
    /\ ~unhandled

\* A batch was dropped after its 3rd failed attempt, and a later batch was
\* constructed afterwards.
C10_Witness ==
    /\ Len(batches) = 2
    /\ batches[1].st = "FAILED"
    /\ batches[1].attempt = 3
    /\ warnings = 1

\* The batches whose send task has not ended.
InFlight == {i \in 1..Len(batches) : batches[i].st \in {"SENDING", "RETRYING"}}

FailureOutcomes == Outcomes \ {"ok"}

\* C11: a batch whose first two attempts fail and whose third succeeds makes
\* exactly 3 attempts: a failed attempt below the 3rd leads to the backoff and
\* then to the next attempt (one more, never the same again), a 2xx answer
\* ends the batch as delivered without a warning, and a delivered batch never
\* changes again (no further attempt).
C11_RetryThenSuccess ==
    [][\A i \in 1..Len(batches) :
          \/ batches'[i] = batches[i]
          \/ /\ batches[i].st # "SUCCEEDED"
             /\ \A o \in FailureOutcomes :
                   (SendSettles(i, o) /\ batches[i].attempt < maxAttempts)
                       => /\ batches'[i].st = "RETRYING"
                          /\ batches'[i].attempt = batches[i].attempt
             /\ batches[i].st = "RETRYING"
                   => /\ batches'[i].st = "SENDING"
                      /\ batches'[i].attempt = batches[i].attempt + 1
                      /\ batches'[i].attempt <= maxAttempts
             /\ SendSettles(i, "ok")
                   => /\ batches'[i].st = "SUCCEEDED"
                      /\ batches'[i].attempt = batches[i].attempt
                      /\ warnings' = warnings
    ]_vars

\* A batch was delivered by its 3rd attempt, after two backoffs, without a
\* warning.
C11_Witness ==
    /\ \E i \in 1..Len(batches) :
          /\ batches[i].st = "SUCCEEDED"
          /\ batches[i].attempt = 3
    /\ warnings = 0

\* C12: the backoff is 1 s after the first failed attempt and 2 s after the
\* second, and never more than 7 s in all for one batch.
C12_BackoffSchedule ==
    \A i \in 1..Len(batches) :
        /\ (batches[i].st = "RETRYING" /\ batches[i].attempt = 1)
              => batches[i].slept = 1000
        /\ (batches[i].st = "RETRYING" /\ batches[i].attempt = 2)
              => batches[i].slept = 1000 + 2000
        /\ batches[i].slept <= 7000

\* C13: a non-2xx status, a transport error and a timeout have the same
\* effect, whatever the attempt: the backoff below the 3rd attempt, the
\* failure handed to flush() at the 3rd; only a 2xx answer delivers a batch.
C13_FailuresAlike ==
    [][\A i \in 1..Len(batches) :
          \/ batches'[i] = batches[i]
          \/ /\ \A o1, o2 \in FailureOutcomes :
                   SendSettles(i, o1) <=> SendSettles(i, o2)
             /\ \A o \in FailureOutcomes :
                   SendSettles(i, o)
                       => IF batches[i].attempt < maxAttempts
                             THEN /\ batches'[i].st = "RETRYING"
                                  /\ warnings' = warnings
                             ELSE /\ batches'[i].st = "FAILED"
                                  /\ warnings' = warnings + 1
             /\ batches'[i].st = "SUCCEEDED"
                   => /\ SendSettles(i, "ok")
                      /\ \A o \in FailureOutcomes : ~SendSettles(i, o)
    ]_vars

\* One batch is in its second backoff (two failed attempts) while another
\* has failed for good.
C13_Witness ==
    /\ \E i \in 1..Len(batches) :
          batches[i].st = "RETRYING" /\ batches[i].attempt = 2
    /\ \E i \in 1..Len(batches) : batches[i].st = "FAILED"

\* C14: every batch holds at least 1 and at most batchSize events.
C14_BatchSize ==
    \A i \in 1..Len(batches) :
        /\ Len(batches[i].logs) >= 1
        /\ Len(batches[i].logs) <= config.batchSize

\* A full batch (size trigger) and a partial one (timer or destroy) exist.
C14_Witness ==
    /\ config.batchSize = 2
    /\ Len(batches) = 2
    /\ Len(batches[1].logs) = 2
    /\ Len(batches[2].logs) = 1

\* C15: flush() on an empty queue does nothing: a timer tick on an empty queue
\* changes nothing at all, and destroy() on an empty queue changes nothing but
\* the timer it clears itself.
C15_EmptyFlushNoOp ==
    [][/\ (TimerTick /\ queue = <<>>) => UNCHANGED vars
       /\ (destroy /\ queue = <<>>)
             => UNCHANGED <<config, queue, calls, accepted, evictedLogs, batches,
                            warnings, unhandled, ret, collector, singleton,
                            utilsCall, integration>>
    ]_vars

\* destroy() ran its flush on a queue that never held an event: no batch.
C15_Witness ==
    /\ ~flushTimer
    /\ accepted = <<>>
    /\ queue = <<>>
    /\ batches = <<>>

\* C16: destroy() cancels the timer for good: a destroy() step leaves the
\* timer off, nothing turns it on again, and with the timer off no timer
\* callback can run.
C16_DestroyCancelsTimer ==
    /\ [][/\ destroy => ~flushTimer'
          /\ ~flushTimer => ~flushTimer'
       ]_vars
    /\ [](~flushTimer => ~ENABLED TimerTick)

\* After destroy() an event was logged and stays queued: no tick flushed it.
C16_Witness ==
    /\ ~flushTimer
    /\ queue # <<>>
    /\ batches = <<>>

\* C17: the final flush of destroy() leaves the queue empty, with everything
\* that was queued in the final batch.
C17_DestroyDrains ==
    [][destroy
         => /\ queue' = <<>>
            /\ queue # <<>>
                  => /\ Len(batches') = Len(batches) + 1
                     /\ batches'[Len(batches')].logs = queue
    ]_vars

\* C18 as stated: at most one batch is in flight at any time.
C18_SerialSends == Cardinality(InFlight) <= 1

\* C18 amended: every batch in flight holds at least one event and no event
\* is in two batches, so the batches (and so the send tasks) are never more
\* than the accepted events that left the queue without being evicted.
C18_InFlightBounded ==
    /\ Cardinality(InFlight) <= Len(batches)
    /\ Len(batches) <= Len(accepted) - Len(queue) - Cardinality(evictedLogs)
    /\ \A i \in InFlight : BatchEvents(i) # {}

\* Three batches are in flight at once.
C18_Witness == Cardinality(InFlight) = 3

----------------------------------------------------------------------------
\* Properties of delivery (checked under SpecDelivery)

RECURSIVE ReceiptsUpTo(_, _)
ReceiptsUpTo(e, i) ==
    IF i = 0 THEN 0
    ELSE ReceiptsUpTo(e, i - 1)
             + (IF i \in DOMAIN collector /\ e \in BatchEvents(i) THEN collector[i] ELSE 0)

\* How many times the collector has received event e.
Receipts(e) == ReceiptsUpTo(e, Len(batches))

\* C7 as stated: the collector receives no event more than once.
C7_AtMostOnce == \A e \in 1..calls : Receipts(e) <= 1

\* C7 amended: an event is in at most one batch, the collector receives a
\* batch at most once per send attempt, so at most 3 times, and more than once
\* only when the batch was retried after an attempt the collector had received.
C7_AtMostOncePerAttempt ==
    /\ \A e \in 1..calls : Receipts(e) <= maxAttempts
    /\ \A i, j \in 1..Len(batches) :
          i # j => BatchEvents(i) \cap BatchEvents(j) = {}
    /\ \A i \in 1..Len(batches) :
          /\ collector[i] <= batches[i].attempt
          /\ collector[i] > 1 => batches[i].attempt > 1

\* The collector received all three attempts of one batch.
C7_Witness ==
    \E i \in 1..Len(batches) : collector[i] = 3 /\ batches[i].attempt = 3


----------------------------------------------------------------------------
\* Properties of getClient, resetClient and the configuration cache
\* (checked under SpecSingleton)

\* The interval timers that are live in the process.
LiveTimers ==
    (IF flushTimer THEN 1 ELSE 0)
        + Cardinality({i \in 1..Len(retired) : retired[i].flushTimer})

\* C19: under any sequence of getClient() and resetClient() at most one
\* client has a live interval timer; a client that is no longer the instance
\* has none (resetClient() cancelled it before returning); getClient() keeps
\* returning the same instance until resetClient() sets it to null, and only
\* resetClient() does.
C19_OneLiveTimer ==
    /\ [](/\ LiveTimers <= 1
          /\ ~clientInstance => ~flushTimer
          /\ \A i \in 1..Len(retired) : ~retired[i].flushTimer)
    /\ [][/\ (clientInstance /\ clientInstance')
               => /\ retired' = retired
                  /\ \A c \in EnvConfigs : getClient(c) => UNCHANGED vars
          /\ (clientInstance /\ ~clientInstance') => resetClient
          /\ (resetClient /\ clientInstance)
               => ~flushTimer' /\ ~clientInstance'
       ]_vars

\* A second client runs with its timer live after the first was reset.
C19_Witness ==
    /\ clientInstance
    /\ flushTimer
    /\ Len(retired) = 1
    /\ ~retired[1].flushTimer

\* C20: a client's configuration is the one passed to its constructor for as
\* long as the client exists: config changes only in the step that constructs
\* a new client (getClient(c) with no instance, which gets c), the replaced
\* client keeps its own, and no log(), flush, destroy(), getClient(c) on an
\* existing instance, getCachedConfig() or resetConfig() changes it.
C20_ConfigFixed ==
    [][/\ clientInstance => config' = config
       /\ config' # config
            => /\ clientInstance'
               /\ retired' = Append(retired, [config |-> config,
                                               flushTimer |-> flushTimer])
       /\ \A c \in EnvConfigs :
              getClient(c) => config' = IF clientInstance THEN config ELSE c
       /\ \A i \in 1..Len(retired) : retired'[i] = retired[i]
       /\ cachedConfig' # cachedConfig => config' = config
    ]_vars

\* The second client took an event under a configuration other than the
\* first client's, while the cache holds yet another one than its own.
C20_Witness ==
    /\ clientInstance
    /\ Len(retired) = 1
    /\ retired[1].config # config
    /\ cachedConfig # <<>>
    /\ cachedConfig # <<config>>
    /\ accepted # <<>>
    /\ queue # <<>>


----------------------------------------------------------------------------
\* Properties of the sampling in log() (checked under Spec)

\* The events that are in some batch.
BatchedEvents == UNION {BatchEvents(i) : i \in 1..Len(batches)}

\* C21: with sample rate 1 no event is dropped: whatever the draws were,
\* every log() call so far was accepted, and each of its events is in the
\* queue or in a batch unless the overflow policy evicted it later.
C21_RateOneKeepsAll ==
    config.sampleRate = 100
        => /\ Len(accepted) = calls
           /\ \A k \in 1..calls :
                 /\ accepted[k] = k
                 /\ k \in QueueEvents \cup BatchedEvents \cup evictedLogs

\* Three log() calls at rate 1, all accepted: one evicted, two queued.
C21_Witness ==
    /\ config.sampleRate = 100
    /\ calls = 3
    /\ Len(accepted) = 3
    /\ evictedLogs # {}
    /\ batches = <<>>

\* C22: with sample rate 0 no event is ever accepted, whatever the draw.
C22_RateZeroDropsAll ==
    config.sampleRate = 0 => accepted = <<>>

\* C23: a log() call whose event is discarded by the sampling changes
\* nothing but the count of calls: not the queue, not the batches (no flush,
\* no send), not the timer, no warning.
C23_DropHasNoEffect ==
    [][\A draw \in RandomDraws :
          (log(draw) /\ sampledOut(draw))
              => /\ calls' = calls + 1
                 /\ UNCHANGED <<config, queue, flushTimer, accepted, evictedLogs,
                                batches, warnings, unhandled, ret, collector,
                                singleton, utilsCall, integration>>
    ]_vars

\* An event was discarded while another one was waiting in the queue with
\* the timer live: the queue still holds it and no batch was built.
C23_Witness ==
    /\ calls = 2
    /\ accepted = <<1>>
    /\ queue = <<1>>
    /\ batches = <<>>
    /\ flushTimer


----------------------------------------------------------------------------
\* Properties of sanitizeBody (checked under SpecUtils)

\* The entries of a value at every depth: the indices that lead to the
\* entry, the keys of the entries around it, its key and its value.
RECURSIVE Entries(_, _, _)
Entries(v, path, around) ==
    IF ~isObject(v)
        THEN {}
        ELSE UNION {{[path |-> path \o <<i>>, around |-> around,
                      k |-> v.kids[i].k, v |-> v.kids[i].v]}
                    \cup Entries(v.kids[i].v, path \o <<i>>,
                                 around \o <<v.kids[i].k>>) :
                    i \in DOMAIN v.kids}

\* The entry of v that the indices lead to.
RECURSIVE At(_, _)
At(v, path) ==
    IF isObject(v) /\ path # <<>> /\ Head(path) \in DOMAIN v.kids
        THEN IF Len(path) = 1
                THEN v.kids[Head(path)]
                ELSE At(v.kids[Head(path)].v, Tail(path))
        ELSE [k |-> <<>>, v |-> Undefined]

\* The call of sanitizeBody has returned.
Sanitized == input[1] = "sanitizeBody" /\ output # <<>>

\* The length of the serialized form of a body.
SerializedLength(body) ==
    IF body.t = "string" THEN strLength(body.parts)
                         ELSE strLength(stringify(body))

\* The keys of the model whose lowercase form contains no entry of the list
\* of sensitive fields; array elements have the key <<>>.
PlainKeys == {<<>>, k_name, k_data, k_user, <<"e", "m", "a", "i", "l">>}

C26_ListedKeysRedacted ==
    (Sanitized /\ isObject(input[2])
        /\ SerializedLength(input[2]) <= maxBodyLength)
        => \A e \in Entries(input[2], <<>>, <<>>) :
              (/\ \A j \in DOMAIN e.around : e.around[j] \in PlainKeys
               /\ \E f \in DOMAIN sensitiveFields :
                     \/ e.k = sensitiveFields[f]
                     \/ includes(toLowerCase(e.k), sensitiveFields[f]))
                  => At(output[1], e.path) = [k |-> e.k, v |-> REDACTED]

\* What is left of a body when nothing is cut off: the redacted structure of
\* an object, an array or a JSON text, the text itself when it is not JSON.
C27_NotTruncated(body, out) ==
    IF body.t = "string"
        THEN IF JSONparse(body.parts) = SyntaxError
                THEN out = body
                ELSE out.t = JSONparse(body.parts).t
        ELSE out.t = body.t

\* The truncation marker of a serialized form of len characters.
C27_IsMarker(out, len) ==
    /\ out.t = "object"
    /\ Len(out.kids) = 3
    /\ out.kids[1] = [k |-> k_truncated, v |-> Bool(TRUE)]
    /\ out.kids[2] = [k |-> k_originalSize, v |-> Num(len)]
    /\ out.kids[3].k = k_preview
    /\ strLength(out.kids[3].v.parts) = previewLength + 3

\* C27 as stated: a body (one that sanitizeBody does not take for absent)
\* whose serialized form is longer than 10,000 characters gives the
\* truncation marker with the exact length, every other body is not truncated.
C27_TruncationThresholdAlways ==
    (Sanitized /\ ~falsy(input[2]))
        => IF SerializedLength(input[2]) > maxBodyLength
              THEN C27_IsMarker(output[1], SerializedLength(input[2]))
              ELSE /\ ~C27_IsMarker(output[1], SerializedLength(input[2]))
                   /\ C27_NotTruncated(input[2], output[1])

\* C27 amended: as stated for objects, arrays and JSON texts; a string that
\* is not JSON and has at most 10,000 characters comes back as a string, cut
\* to its first 500 characters plus '...' when it is longer than 500.
C27_TruncationThreshold ==
    (Sanitized /\ ~falsy(input[2]))
        => LET body == input[2]
               out == output[1]
               len == SerializedLength(body)
           IN  IF len > maxBodyLength
                  THEN C27_IsMarker(out, len)
                  ELSE /\ ~C27_IsMarker(out, len)
                       /\ IF body.t = "string"
                                /\ JSONparse(body.parts) = SyntaxError
                             THEN /\ out.t = "string"
                                  /\ IF len > previewLength
                                        THEN out.parts
                                               = substring(body.parts, previewLength)
                                                   \o <<Ellipsis>>
                                        ELSE out = body
                             ELSE C27_NotTruncated(body, out)

\* A body of exactly 10,001 serialized characters was replaced by the marker
\* with that size.
C27_Witness ==
    /\ Sanitized
    /\ input[2] = Sized(k_name, maxBodyLength + 1)
    /\ C27_IsMarker(output[1], maxBodyLength + 1)

\* A call of sanitizeHeaders has returned.
HeadersSanitized == input[1] = "sanitizeHeaders" /\ output # <<>>

\* The elements of a list of strings, ', ' between each two of them.
RECURSIVE C28_Joined(_)
C28_Joined(kids) ==
    IF Len(kids) = 0
        THEN <<>>
        ELSE IF Len(kids) = 1
                THEN kids[1].v.parts
                ELSE C28_Joined(SubSeq(kids, 1, Len(kids) - 1))
                        \o <<Lit(<<",", " ">>)>> \o kids[Len(kids)].v.parts

\* C28: the result of sanitizeHeaders has the keys of its argument, in the
\* same order; the value of a key that equals a denylist entry when
\* lowercased is '[REDACTED]', the value of another key is the string it was,
\* the list joined with ', ', or the string form of what it was.
C28_HeadersSanitized ==
    HeadersSanitized
        => LET in == input[2].kids
               out == output[1].kids
           IN  /\ output[1].t = "object"
               /\ Len(out) = Len(in)
               /\ \A i \in DOMAIN in :
                     /\ out[i].k = in[i].k
                     /\ out[i].v.t = "string"
                     /\ IF \E f \in DOMAIN sensitiveKeys :
                              toLowerCase(in[i].k) = sensitiveKeys[f]
                           THEN out[i].v = REDACTED
                           ELSE CASE in[i].v.t = "array" ->
                                        out[i].v.parts = C28_Joined(in[i].v.kids)
                                  [] in[i].v.t = "string" -> out[i].v = in[i].v
                                  [] in[i].v.t = "number" ->
                                        out[i].v.parts = <<Lit(digits(in[i].v.n))>>
                                  [] OTHER ->
                                        out[i].v.parts = String(in[i].v)

\* The header X-API-Key, sent as a list, was redacted and the content type
\* next to it was kept.
C28_Witness ==
    /\ HeadersSanitized
    /\ Len(input[2].kids) = 2
    /\ input[2].kids[1].k = <<"X", "-", "A", "P", "I", "-", "K", "e", "y">>
    /\ input[2].kids[1].v.t = "array"
    /\ output[1].kids[1] = [k |-> input[2].kids[1].k, v |-> REDACTED]
    /\ output[1].kids[2] = input[2].kids[2]

\* A call of getConfig has returned.
ConfigRead == input[1] = "getConfig" /\ output # <<>>

\* A number above zero.
C30_Positive(x) == ~x.nan /\ x.val > 0

\* C30: a configuration returned by getConfig() has a sample rate from 0 to
\* 1 and a positive batch size, batch interval, queue size and timeout; any
\* other environment gives null.
C30_ConfigValid ==
    (ConfigRead /\ output[1] # <<>>)
        => LET c == output[1][1]
           IN  /\ ~c.sampleRate.nan
               /\ c.sampleRate.val >= 0
               /\ c.sampleRate.val <= 100
               /\ C30_Positive(c.batchSize)
               /\ C30_Positive(c.batchInterval)
               /\ C30_Positive(c.maxQueueSize)
               /\ C30_Positive(c.timeout)

\* The events that are in the queue or in a batch.
Enqueued ==
    {id \in DOMAIN payloads :
        \/ \E i \in DOMAIN queue : queue[i] = id
        \/ \E b \in DOMAIN batches :
              \E i \in DOMAIN batches[b].logs : batches[b].logs[i] = id}

\* What sanitizeHeaders makes of the headers of a request or a response, if
\* there are any.
C24_Headers(raw) == IF raw = Undefined THEN Undefined ELSE sanitizeHeaders(raw)

\* C24: the headers of every event in the queue or in a batch are what
\* sanitizeHeaders returns for the headers of its request and response, and
\* its bodies are what sanitizeBody returns for the bodies of its request and
\* response, whichever entry point built the event.
C24_EventsSanitized ==
    \A id \in Enqueued :
        LET raw == payloads[id].raw
            event == payloads[id].log
        IN  /\ event.requestHeaders = C24_Headers(raw.requestHeaders)
            /\ event.responseHeaders = C24_Headers(raw.responseHeaders)
            /\ event.requestBody = sanitizeBody(raw.requestBody)
            /\ event.responseBody = sanitizeBody(raw.responseBody)

\* The API key or the base URL is missing from the environment.
C29_Missing ==
    \/ orElse(processEnv.LOGSENTINEL_API_KEY,
              processEnv.NEXT_PUBLIC_LOGSENTINEL_API_KEY) = <<>>
    \/ orElse(processEnv.LOGSENTINEL_BASE_URL,
              processEnv.NEXT_PUBLIC_LOGSENTINEL_BASE_URL) = <<>>

\* C29: while the API key or the base URL is missing, getConfig() returns
\* null, no client exists, no timer runs, no event was logged, queued or
\* sent, nothing was thrown by the pipeline, and every call of a wrapped
\* handler has called the host's handler exactly once, with the request and
\* the response object as they came.
C29_DisabledPassThrough ==
    C29_Missing
        => /\ getConfig(processEnv) = <<>>
           /\ cachedConfig \in {<<>>, <<(<<>>)>>}
           /\ ~clientInstance
           /\ ~flushTimer
           /\ calls = 0
           /\ payloads = <<>>
           /\ accepted = <<>>
           /\ queue = <<>>
           /\ batches = <<>>
           /\ ~unhandled
           /\ \A i \in DOMAIN handlerCalls :
                 handlerCalls[i].invoked
                    = <<[request |-> handlerCalls[i].request, patched |-> FALSE]>>

\* Without a base URL, a POST went through withLogSentinel and another
\* request through a different entry point.
C29_Witness ==
    /\ C29_Missing
    /\ processEnv.LOGSENTINEL_API_KEY # <<>>
    /\ Len(handlerCalls) = 2
    /\ handlerCalls[1].wrapper = "withLogSentinel"
    /\ handlerCalls[1].request.method = "POST"
    /\ handlerCalls[2].wrapper # "withLogSentinel"
    /\ cachedConfig = <<(<<>>)>>

----------------------------------------------------------------------------
\* Order, occupancy and identity of batches

\* The events of the first k batches, in the order of their construction.
RECURSIVE C34_Concat(_)
C34_Concat(k) ==
    IF k = 0 THEN <<>> ELSE C34_Concat(k - 1) \o batches[k].logs

\* The accepted events, in the order of their acceptance, without those the
\* overflow policy evicted.
C34_Kept == SelectSeq(accepted, LAMBDA e : e \notin evictedLogs)

\* C34: the events of every batch are in the order in which log() accepted
\* them, and the batches in the order of their construction, followed by
\* what is still queued, are the accepted events in acceptance order
\* without the evicted ones (so the batches alone are, once the queue is
\* empty).
C34_FifoEndToEnd ==
    /\ \A i \in DOMAIN batches :
          \A k1, k2 \in DOMAIN batches[i].logs :
              k1 < k2 => batches[i].logs[k1] < batches[i].logs[k2]
    /\ C34_Concat(Len(batches)) \o queue = C34_Kept

\* Two batches were constructed, an event was evicted, the queue is empty:
\* the batches hold the surviving events in acceptance order.
C34_Witness ==
    /\ Len(batches) = 2
    /\ evictedLogs # {}
    /\ queue = <<>>
    /\ Len(accepted) = 3
    /\ C34_Concat(2) = C34_Kept

\* C35: with 1 <= batchSize <= maxQueueSize the queue holds fewer than
\* batchSize events between any two steps, it is never full and no event is
\* evicted, whatever the transport does.
C35_NeverFull ==
    (config.batchSize >= 1 /\ config.batchSize <= config.maxQueueSize)
        => /\ size(queue) < config.batchSize
           /\ size(queue) < config.maxQueueSize
           /\ evictedLogs = {}

\* batchSize equals the capacity, three events were accepted, the batch of
\* the first two failed for good, and the third event waits in the queue.
C35_Witness ==
    /\ config.batchSize = 2
    /\ config.maxQueueSize = 2
    /\ Len(accepted) = 3
    /\ queue = <<3>>
    /\ Len(batches) = 1
    /\ batches[1].st = "FAILED"
    /\ evictedLogs = {}

\* C36: no step changes what a batch puts on the wire: the batch identifier,
\* the sent-at timestamp and the list of events of every batch are those of
\* its construction in every later attempt, also across log() calls made
\* while the batch waits in its backoff.
C36_SameBatchEveryAttempt ==
    [][\A i \in DOMAIN batches :
          /\ i \in DOMAIN batches'
          /\ fetchBody(batches'[i]) = fetchBody(batches[i])
      ]_vars

\* Batch 1 is in its third attempt with the one event it was constructed
\* with, while an event logged later waits in the queue.
C36_Witness ==
    /\ Len(batches) = 1
    /\ batches[1].attempt = 3
    /\ batches[1].st = "SENDING"
    /\ fetchBody(batches[1]) = [logs |-> <<1>>, batchId |-> 1, sentAt |-> 1]
    /\ queue = <<2>>

----------------------------------------------------------------------------
\* Progress (checked under SpecFair)

\* The states in which a batch send has ended.
Settled == {"SUCCEEDED", "FAILED"}

\* C32: a batch starts in SENDING with attempt 1; its only transitions are
\* SENDING -> SUCCEEDED, SENDING -> RETRYING, SENDING -> FAILED (the attempt
\* unchanged) and RETRYING -> SENDING (the attempt one higher); the attempt
\* stays in 1..3; a batch in SUCCEEDED or FAILED never changes; and, every
\* attempt settling, every batch eventually is in SUCCEEDED or FAILED.
C32_BatchStateMachine ==
    /\ [](\A i \in DOMAIN batches : batches[i].attempt \in 1..maxAttempts)
    /\ [][/\ \A i \in DOMAIN batches' :
                i \notin DOMAIN batches
                    => batches'[i].st = "SENDING" /\ batches'[i].attempt = 1
          /\ \A i \in DOMAIN batches :
                /\ i \in DOMAIN batches'
                /\ batches[i].st \in Settled => batches'[i] = batches[i]
                /\ \/ /\ batches'[i].st = batches[i].st
                      /\ batches'[i].attempt = batches[i].attempt
                   \/ /\ batches[i].st = "SENDING"
                      /\ batches'[i].st \in {"SUCCEEDED", "RETRYING", "FAILED"}
                      /\ batches'[i].attempt = batches[i].attempt
                   \/ /\ batches[i].st = "RETRYING"
                      /\ batches'[i].st = "SENDING"
                      /\ batches'[i].attempt = batches[i].attempt + 1
        ]_vars
    /\ \A i \in 1..MaxCalls :
          (i \in DOMAIN batches)
              ~> (i \in DOMAIN batches /\ batches[i].st \in Settled)

\* One batch failed for good at its third attempt and another one succeeded
\* at its second.
C32_Witness ==
    /\ Len(batches) = 2
    /\ batches[1].st = "FAILED"
    /\ batches[1].attempt = 3
    /\ batches[2].st = "SUCCEEDED"
    /\ batches[2].attempt = 2

\* C33: with a batch size of at least 1 and a client that is not destroyed
\* (its timer is live), every event in the queue eventually is out of the
\* queue, in a batch or evicted.
C33_QueuedEventLeaves ==
    \A e \in 1..MaxCalls :
        (e \in QueueEvents /\ flushTimer /\ config.batchSize >= 1)
            ~> (e \notin QueueEvents /\ e \in BatchedEvents \cup evictedLogs)

\* The batch size is never reached (3 with a capacity of 2), and the timer
\* took an event alone into a batch.
C33_Witness ==
    /\ config.batchSize > config.maxQueueSize
    /\ flushTimer
    /\ Len(batches) >= 1
    /\ batches[1].logs = <<1>>
    /\ queue = <<>>

----------------------------------------------------------------------------
\* withLogSentinel and the host's handler (checked under SpecIntegration)

\* The calls of handlers wrapped by withLogSentinel.
ApiRouteCalls ==
    {i \in DOMAIN handlerCalls : handlerCalls[i].wrapper = "withLogSentinel"}

\* C31: for every call of a handler wrapped by withLogSentinel, with a config
\* or without, the handler is invoked exactly once, on the request; the
\* wrapper's promise settles as the handler did, with the value it returned
\* or the error it threw; and when the handler threw and a config is
\* there, the log task hands client.log an event with status code 500 and
\* the message and stack of the error.
C31_HandlerPreserved ==
    \A i \in ApiRouteCalls :
        LET call == handlerCalls[i]
            outcome == call.outcome[1]
        IN  /\ Len(call.invoked) = 1
            /\ call.invoked[1].request = call.request
            /\ outcome.settled = outcome.handled
            /\ (outcome.handled.threw /\ call.invoked[1].patched)
                   => /\ Len(call.task) = 1
                      /\ payloads[call.task[1]].log.statusCode = 500
                      /\ payloads[call.task[1]].log.error
                             = errorDescriptor(outcome.handled.value)

====
